---- MODULE Spec2Model ----
(***************************************************************************)
(* A model of doc-lama-metagen.py: the per-file description pipeline       *)
(* (LLM draft, brand correction, grammar validation, sanitization, length  *)
(* gate, retry, write-back), the batch loop of main(), the conditional     *)
(* attribute loader and the attribute resolver.                            *)
(*                                                                         *)
(* Text is modelled character by character: a Python str is a TLA+ string, *)
(* s[i] is At(s, i + 1), s[a:b] is SubSeq(s, a + 1, b).  The module text   *)
(* is ASCII, so the four typographic quotes of FORBIDDEN_CHARS_RE are      *)
(* written with the stand-in characters LDQUO, RDQUO, LSQUO and RSQUO,     *)
(* which are used for nothing else.                                        *)
(***************************************************************************)
EXTENDS Integers, Sequences, FiniteSets, TLC

(***************************************************************************)
(* Characters and the Python str / re primitives the program uses.         *)
(***************************************************************************)
LDQUO == "~"
RDQUO == "$"
LSQUO == "%"
RSQUO == "#"

\* s[i - 1], "" outside the string
At(s, i) == IF 1 <= i /\ i <= Len(s) THEN SubSeq(s, i, i) ELSE ""

LowerChars ==
  {"a","b","c","d","e","f","g","h","i","j","k","l","m",
   "n","o","p","q","r","s","t","u","v","w","x","y","z"}

UpperChars ==
  {"A","B","C","D","E","F","G","H","I","J","K","L","M",
   "N","O","P","Q","R","S","T","U","V","W","X","Y","Z"}

DigitChars == {"0","1","2","3","4","5","6","7","8","9"}

\* str.lower() on one character
LowerOf ==
  [c \in UpperChars |->
     CASE c = "A" -> "a" [] c = "B" -> "b" [] c = "C" -> "c" [] c = "D" -> "d"
       [] c = "E" -> "e" [] c = "F" -> "f" [] c = "G" -> "g" [] c = "H" -> "h"
       [] c = "I" -> "i" [] c = "J" -> "j" [] c = "K" -> "k" [] c = "L" -> "l"
       [] c = "M" -> "m" [] c = "N" -> "n" [] c = "O" -> "o" [] c = "P" -> "p"
       [] c = "Q" -> "q" [] c = "R" -> "r" [] c = "S" -> "s" [] c = "T" -> "t"
       [] c = "U" -> "u" [] c = "V" -> "v" [] c = "W" -> "w" [] c = "X" -> "x"
       [] c = "Y" -> "y" [] c = "Z" -> "z"]

\* str.upper() on one character
UpperOf ==
  [c \in LowerChars |->
     CASE c = "a" -> "A" [] c = "b" -> "B" [] c = "c" -> "C" [] c = "d" -> "D"
       [] c = "e" -> "E" [] c = "f" -> "F" [] c = "g" -> "G" [] c = "h" -> "H"
       [] c = "i" -> "I" [] c = "j" -> "J" [] c = "k" -> "K" [] c = "l" -> "L"
       [] c = "m" -> "M" [] c = "n" -> "N" [] c = "o" -> "O" [] c = "p" -> "P"
       [] c = "q" -> "Q" [] c = "r" -> "R" [] c = "s" -> "S" [] c = "t" -> "T"
       [] c = "u" -> "U" [] c = "v" -> "V" [] c = "w" -> "W" [] c = "x" -> "X"
       [] c = "y" -> "Y" [] c = "z" -> "Z"]

LowerChar(c) == IF c \in UpperChars THEN LowerOf[c] ELSE c

UpperChar(c) == IF c \in LowerChars THEN UpperOf[c] ELSE c

\* the concatenation of pieces[a], ..., pieces[b]
RECURSIVE CatRange(_, _, _)
CatRange(pieces, a, b) ==
  IF a > b THEN ""
  ELSE IF a = b THEN pieces[a]
       ELSE LET m == (a + b) \div 2
            IN  CatRange(pieces, a, m) \o CatRange(pieces, m + 1, b)

Cat(pieces) == CatRange(pieces, 1, Len(pieces))

Min(S) == CHOOSE x \in S : \A y \in S : x <= y

Max(S) == CHOOSE x \in S : \A y \in S : x >= y

\* str.lower()
Lower(s) ==
  IF s = "" THEN "" ELSE Cat([i \in 1 .. Len(s) |-> LowerChar(At(s, i))])

SpaceChars == {" ", "\n", "\t"}

\* the regular-expression class \s
IsSpace(c) == c \in SpaceChars

\* the regular-expression class \w
IsWord(c) == c \in LowerChars \cup UpperChars \cup DigitChars \cup {"_"}

\* the regular-expression assertion \b between characters p - 1 and p
Boundary(s, p) ==
  LET before == p > 1 /\ p - 1 <= Len(s) /\ IsWord(At(s, p - 1))
      after  == p >= 1 /\ p <= Len(s) /\ IsWord(At(s, p))
  IN  before # after

\* the literal pat occurs in s at position i
MatchAt(s, i, pat) ==
  /\ i >= 1
  /\ i + Len(pat) - 1 <= Len(s)
  /\ SubSeq(s, i, i + Len(pat) - 1) = pat

\* the positions where a regular expression that is the literal pat,
\* optionally between two \b and optionally with re.IGNORECASE, matches in s
Occurrences(s, pat, ci, word) ==
  LET hay    == IF ci THEN Lower(s) ELSE s
      needle == IF ci THEN Lower(pat) ELSE pat
  IN  IF Len(pat) = 0 THEN {}
      ELSE {i \in 1 .. Len(s) - Len(pat) + 1 :
              /\ MatchAt(hay, i, needle)
              /\ word => (Boundary(s, i) /\ Boundary(s, i + Len(pat)))}

\* re.sub and str.replace scan left to right and take the leftmost match that
\* starts at or after the end of the previous one; occ holds the positions
\* where the pattern matches
RECURSIVE ReplaceFrom(_, _, _, _, _)
ReplaceFrom(s, i, occ, n, rep) ==
  IF s = "" THEN "" ELSE
  LET rest == {j \in occ : j >= i}
  IN  IF rest = {} THEN SubSeq(s, i, Len(s))
      ELSE LET j == Min(rest)
           IN  SubSeq(s, i, j - 1) \o rep \o ReplaceFrom(s, j + n, occ, n, rep)

\* str.replace(pat, rep)
Replace(s, pat, rep) ==
  IF s = "" THEN "" ELSE
  ReplaceFrom(s, 1, Occurrences(s, pat, FALSE, FALSE), Len(pat), rep)

\* re.sub(re.escape(pat), rep, s, flags=re.IGNORECASE)
ReplaceCI(s, pat, rep) ==
  IF s = "" THEN "" ELSE
  ReplaceFrom(s, 1, Occurrences(s, pat, TRUE, FALSE), Len(pat), rep)

\* re.sub(r'\b' + re.escape(pat) + r'\b', '', s, flags=re.IGNORECASE)
RemoveWordCI(s, pat) ==
  IF s = "" THEN "" ELSE
  ReplaceFrom(s, 1, Occurrences(s, pat, TRUE, TRUE), Len(pat), "")

\* re.search(r'\b' + re.escape(pat) + r'\b', s, re.IGNORECASE)
SearchWordCI(s, pat) == Occurrences(s, pat, TRUE, TRUE) # {}

\* pat in s
Contains(s, pat) == \E i \in 1 .. Len(s) : MatchAt(s, i, pat)

\* the last position of the run of characters of cs that starts at i
\* (i - 1 when s[i] is not in cs)
RunEnd(s, i, cs) ==
  (CHOOSE j \in i .. Len(s) + 1 :
     /\ j = Len(s) + 1 \/ At(s, j) \notin cs
     /\ \A k \in i .. j - 1 : At(s, k) \in cs) - 1

\* the first position of the run of characters of cs that ends at i
RunStart(s, i, cs) ==
  (CHOOSE j \in 0 .. i :
     /\ j = 0 \/ At(s, j) \notin cs
     /\ \A k \in j + 1 .. i : At(s, k) \in cs) + 1

\* str.strip(chars), str.rstrip(chars)
StripChars(s, cs) ==
  IF s = "" THEN "" ELSE
  LET a == RunEnd(s, 1, cs) + 1
      b == RunStart(s, Len(s), cs) - 1
  IN  IF a > b THEN "" ELSE SubSeq(s, a, b)

RStripChars(s, cs) ==
  IF s = "" THEN "" ELSE SubSeq(s, 1, RunStart(s, Len(s), cs) - 1)

\* str.strip()
Strip(s) == StripChars(s, SpaceChars)

\* re.sub(r'\s+', ' ', s) when min = 1 and re.sub(r'\s{2,}', ' ', s) when
\* min = 2: a maximal whitespace run of at least min characters becomes
\* one space
CollapseSpaces(s, min) ==
  IF s = "" THEN "" ELSE
  Cat([i \in 1 .. Len(s) |->
         IF ~IsSpace(At(s, i)) THEN At(s, i)
         ELSE IF i > 1 /\ IsSpace(At(s, i - 1)) THEN ""
         ELSE IF min = 1 \/ (i < Len(s) /\ IsSpace(At(s, i + 1))) THEN " "
         ELSE At(s, i)])

\* str.split(): the maximal runs of non-whitespace characters; the string is
\* cut at a whitespace character near its middle and the halves are split
RECURSIVE Split(_)
Split(s) ==
  IF s = "" THEN << >> ELSE
  LET n   == Len(s)
      mid == (n + 1) \div 2
  IN  IF \E i \in mid .. n : IsSpace(At(s, i))
      THEN LET p == CHOOSE i \in mid .. n :
                      IsSpace(At(s, i)) /\ \A k \in mid .. i - 1 : ~IsSpace(At(s, k))
           IN  Split(SubSeq(s, 1, p - 1)) \o Split(SubSeq(s, p + 1, n))
      ELSE IF \E i \in 1 .. mid - 1 : IsSpace(At(s, i))
      THEN LET p == CHOOSE i \in 1 .. mid - 1 :
                      IsSpace(At(s, i)) /\ \A k \in i + 1 .. mid - 1 : ~IsSpace(At(s, k))
           IN  Split(SubSeq(s, 1, p - 1)) \o Split(SubSeq(s, p + 1, n))
      ELSE << s >>

\* sep.join(words)
Join(words, sep) ==
  Cat([k \in 1 .. Len(words) |-> IF k = 1 THEN words[k] ELSE sep \o words[k]])

\* str.rfind(c) as a 1-based position, 0 when c does not occur
RFind(s, c) ==
  IF \E i \in 1 .. Len(s) : At(s, i) = c
  THEN CHOOSE i \in 1 .. Len(s) :
         At(s, i) = c /\ \A k \in i + 1 .. Len(s) : At(s, k) # c
  ELSE 0

\* sorted(names, key=len, reverse=True): Python's sort is stable, so names of
\* equal length keep the order in which the collection yields them
RECURSIVE InsertByLen(_, _)
InsertByLen(sorted, x) ==
  IF Len(sorted) = 0 THEN << x >>
  ELSE IF Len(x) > Len(sorted[1]) THEN << x >> \o sorted
       ELSE << sorted[1] >> \o InsertByLen(Tail(sorted), x)

RECURSIVE SortByLenDesc(_)
SortByLenDesc(names) ==
  IF Len(names) = 0 THEN << >>
  ELSE InsertByLen(SortByLenDesc(SubSeq(names, 1, Len(names) - 1)),
                   names[Len(names)])

(***************************************************************************)
(* ScriptConfig                                                            *)
(***************************************************************************)
\* FORBIDDEN_CHARS_RE = [>:|<ldquo><rdquo>"<lsquo><rsquo>]
FORBIDDEN_CHARS_RE == {">", ":", "|", LDQUO, RDQUO, "\"", LSQUO, RSQUO}

TRAILING_STOPWORDS ==
  {"and", "or", "to", "for", "with", "in", "of", "on", "at", "by", "from",
   "into", "via", "as", "that", "which", "including", "such", "than", "then",
   "while", "when", "where"}

\* each pattern is ^\s* followed by the listed word alternatives, each
\* followed by \s+, compared with re.IGNORECASE
DOC_META_PATTERNS ==
  << << {"This"}, {"guide", "page", "document", "section"},
        {"describes", "covers", "explains", "provides"} >>,
     << {"In"}, {"this"}, {"guide", "page", "document", "section"} >>,
     << {"The"}, {"guide", "page", "document", "section"},
        {"describes", "covers", "explains", "provides"} >> >>

\* the accepted length range of a description
MIN_DESC_LEN == 100

MAX_DESC_LEN == 160

(***************************************************************************)
(* sanitize_and_finalize                                                   *)
(***************************************************************************)
\* the character references html.unescape expands in the drafts considered
HTML_ENTITIES ==
  << << "&amp;", "&" >>, << "&lt;", "<" >>, << "&gt;", ">" >>,
     << "&quot;", "\"" >> >>

EntityAt(s, i) ==
  {k \in 1 .. Len(HTML_ENTITIES) : MatchAt(s, i, HTML_ENTITIES[k][1])}

RECURSIVE UnescapeFrom(_, _)
UnescapeFrom(s, i) ==
  IF s = "" THEN "" ELSE
  LET rest == {j \in i .. Len(s) : EntityAt(s, j) # {}}
  IN  IF rest = {} THEN SubSeq(s, i, Len(s))
      ELSE LET j == Min(rest)
               k == CHOOSE h \in EntityAt(s, j) : TRUE
           IN  SubSeq(s, i, j - 1) \o HTML_ENTITIES[k][2]
                 \o UnescapeFrom(s, j + Len(HTML_ENTITIES[k][1]))

\* html.unescape: one left-to-right pass, the replacement text is not rescanned
html_unescape(s) == UnescapeFrom(s, 1)

leakage_phrases ==
  << "Follow these rules strictly", "Your task is to", "You must now",
     "Output only", "Critical:", "Important:", "Note:", "Remember:",
     "Your response must contain only" >>

RECURSIVE RemovePhrases(_, _, _)
RemovePhrases(s, phrases, k) ==
  IF s = "" \/ k > Len(phrases) THEN s
  ELSE RemovePhrases(ReplaceCI(s, phrases[k], ""), phrases, k + 1)

\* lines 415-421
strip_leakage(desc) ==
  Strip(CollapseSpaces(RemovePhrases(desc, leakage_phrases, 1), 1))

\* re.sub(r"(\w+)'s\b", r"\1s", desc): from is the first character the
\* previous match has not consumed
RECURSIVE PossessiveFrom(_, _)
PossessiveFrom(s, from) ==
  IF s = "" THEN "" ELSE
  LET rest == {i \in from + 1 .. Len(s) - 1 :
                 /\ At(s, i) = "'"
                 /\ IsWord(At(s, i - 1))
                 /\ At(s, i + 1) = "s"
                 /\ Boundary(s, i + 2)}
  IN  IF rest = {} THEN SubSeq(s, from, Len(s))
      ELSE LET i == Min(rest)
           IN  SubSeq(s, from, i - 1) \o "s" \o PossessiveFrom(s, i + 2)

\* lines 424-427
strip_possessives(desc) ==
  Strip(CollapseSpaces(Replace(PossessiveFrom(desc, 1), "'", ""), 1))

RECURSIVE RemoveWords(_, _, _)
RemoveWords(s, names, k) ==
  IF s = "" \/ k > Len(names) THEN s
  ELSE RemoveWords(RemoveWordCI(s, names[k]), names, k + 1)

\* lines 428-429
remove_banned(desc, banned) == RemoveWords(desc, SortByLenDesc(banned), 1)

\* line 430
replace_forbidden(desc) ==
  IF desc = "" THEN "" ELSE
  Cat([i \in 1 .. Len(desc) |->
         IF At(desc, i) \in FORBIDDEN_CHARS_RE THEN " " ELSE At(desc, i)])

\* the position of the last character matched by the alternatives alts[k..]
\* (each followed by \s+) starting at i, 0 if they do not match
RECURSIVE AltsEnd(_, _, _, _)
AltsEnd(s, i, alts, k) ==
  IF k > Len(alts) THEN i - 1
  ELSE LET ws == {w \in alts[k] :
                    /\ i + Len(w) <= Len(s)
                    /\ Lower(SubSeq(s, i, i + Len(w) - 1)) = Lower(w)
                    /\ IsSpace(At(s, i + Len(w)))}
       IN  IF ws = {} THEN 0
           ELSE LET w == CHOOSE x \in ws : TRUE
                IN  AltsEnd(s, RunEnd(s, i + Len(w), SpaceChars) + 1, alts, k + 1)

\* pat.sub("", desc) for an anchored pattern ^\s*alts
SubPrefix(s, alts, leading) ==
  IF s = "" THEN "" ELSE
  LET start == IF leading THEN RunEnd(s, 1, SpaceChars) + 1 ELSE 1
      e     == AltsEnd(s, start, alts, 1)
  IN  IF e = 0 THEN s ELSE SubSeq(s, e + 1, Len(s))

RECURSIVE StripMeta(_, _)
StripMeta(s, k) ==
  IF s = "" \/ k > Len(DOC_META_PATTERNS) THEN s
  ELSE StripMeta(Strip(SubPrefix(s, DOC_META_PATTERNS[k], TRUE)), k + 1)

\* line 431
strip_doc_meta(desc) == StripMeta(desc, 1)

\* line 432
strip_leading_preposition(desc) ==
  SubPrefix(desc, << {"by", "with", "through", "using"} >>, FALSE)

\* line 433
tidy(desc) == StripChars(CollapseSpaces(desc, 2), {" ", ",", ";", ":", "-"})

\* lines 435-438
truncate(desc) ==
  IF desc = "" THEN "" ELSE
  IF Len(desc) > MAX_DESC_LEN
  THEN LET cut        == SubSeq(desc, 1, MAX_DESC_LEN + 1)
           last_space == RFind(cut, " ")
       IN  IF last_space # 0 THEN SubSeq(cut, 1, last_space - 1) ELSE cut
  ELSE desc

RECURSIVE PopStopwords(_)
PopStopwords(words) ==
  IF Len(words) > 0
     /\ StripChars(Lower(words[Len(words)]), {",", ".", ";"}) \in TRAILING_STOPWORDS
  THEN PopStopwords(SubSeq(words, 1, Len(words) - 1))
  ELSE words

\* the words of desc with the trailing stopwords kept
KeepStopwords(desc) ==
  Join(Split(RStripChars(desc, {" ", ",", ";", ":", "-", "."})), " ")

\* lines 439-441
trim_stopwords(desc) ==
  Join(PopStopwords(Split(RStripChars(desc, {" ", ",", ";", ":", "-", "."}))), " ")

\* lines 443-444
drop_period(desc) ==
  IF Len(desc) > 0 /\ At(desc, Len(desc)) = "."
  THEN SubSeq(desc, 1, Len(desc) - 1)
  ELSE desc

\* line 445
capitalize(desc) ==
  IF Len(desc) > 0
  THEN UpperChar(At(desc, 1)) \o SubSeq(desc, 2, Len(desc))
  ELSE desc

sanitize_and_finalize(draft, banned) ==
  LET cleaned ==
        tidy(strip_leading_preposition(strip_doc_meta(replace_forbidden(
          remove_banned(strip_possessives(strip_leakage(html_unescape(draft))),
                        banned)))))
  IN  IF cleaned = "" THEN ""
      ELSE capitalize(drop_period(trim_stopwords(truncate(cleaned))))

(***************************************************************************)
(* resolve_attributes.  A Python dict is the sequence of its <<key, value>> *)
(* items in iteration (insertion) order.                                   *)
(***************************************************************************)
Keys(attributes) == {attributes[n][1] : n \in 1 .. Len(attributes)}

Lookup(attributes, key) ==
  attributes[CHOOSE n \in 1 .. Len(attributes) : attributes[n][1] = key][2]

\* the iteration count of `for _ in range(10)` (lines 546 and 572)
ITER_CAP == 10

\* the characters of [A-Za-z0-9_-] (for ASCII text also those of [\w-])
NameChars == LowerChars \cup UpperChars \cup DigitChars \cup {"_", "-"}

\* the position of the closing brace of a match of \{([A-Za-z0-9_-]+)\}
\* starting at p, 0 if there is none
PlaceholderEnd(text, p) ==
  IF At(text, p) # "{" THEN 0
  ELSE LET e == RunEnd(text, p + 1, NameChars)
       IN  IF e >= p + 1 /\ e < Len(text) /\ At(text, e + 1) = "}"
           THEN e + 1 ELSE 0

\* the text returned as it stands, nothing deleted
KeepPlaceholders(text) == text

\* re.sub(r"\{([A-Za-z0-9_-]+)\}", "", text) on text[p-1:] (lines 570, 585)
RECURSIVE DeleteFrom(_, _)
DeleteFrom(text, p) ==
  IF text = "" THEN "" ELSE
  LET starts == {q \in p .. Len(text) : PlaceholderEnd(text, q) > 0}
  IN  IF starts = {} THEN SubSeq(text, p, Len(text))
      ELSE LET q == Min(starts)
           IN  SubSeq(text, p, q - 1)
                 \o DeleteFrom(text, PlaceholderEnd(text, q) + 1)

DeletePlaceholders(text) == DeleteFrom(text, 1)

\* lines 577-578: the replacements of the keys n.. of one pass, in dict order
RECURSIVE ReplaceEach(_, _, _)
ReplaceEach(temp_text, attributes, n) ==
  IF n > Len(attributes) THEN temp_text
  ELSE LET \* temp_text = temp_text.replace(...), a value computed once
           replaced == {Replace(t, "{" \o attributes[n][1] \o "}",
                                attributes[n][2]) : t \in {temp_text}}
       IN  ReplaceEach(CHOOSE r \in replaced : TRUE, attributes, n + 1)

ResolveFirstKeyOnly(text, attributes) ==
  Replace(text, "{" \o attributes[1][1] \o "}", attributes[1][2])

\* lines 576-578: temp_text after one full pass over the table
ResolvePass(text, attributes) == ReplaceEach(text, attributes, 1)

\* lines 573, 580: the loop stops before its cap
ResolveStops(text, attributes) ==
  ~Contains(text, "{") \/ ResolvePass(text, attributes) = text

\* lines 572-582 with `left` iterations of the loop still to run
RECURSIVE ResolveLoop(_, _, _)
ResolveLoop(text, attributes, left) ==
  IF left = 0 \/ ResolveStops(text, attributes) THEN text
  ELSE ResolveLoop(ResolvePass(text, attributes), attributes, left - 1)

resolve_attributes(text, attributes) ==
  IF Len(attributes) = 0 THEN DeletePlaceholders(text)
  ELSE DeletePlaceholders(ResolveLoop(text, attributes, ITER_CAP))

(***************************************************************************)
(* load_and_process_adoc_attributes: line patterns, the table, the value   *)
(* expansion of the second pass.                                           *)
(***************************************************************************)
StartsWith(s, prefix) == MatchAt(s, 1, prefix)

EndsWith(s, suffix) == MatchAt(s, Len(s) - Len(suffix) + 1, suffix)

IsName(s) == Len(s) > 0 /\ \A n \in 1 .. Len(s) : At(s, n) \in NameChars

\* endif_re (line 499)
IsEndif(line) == line = "endif::[]"

\* ifndef_re (line 497): the key of the directive, "" if the line is none
IfndefKey(line) ==
  LET key == SubSeq(line, 9, Len(line) - 2)
  IN  IF StartsWith(line, "ifndef::") /\ EndsWith(line, "[]") /\ IsName(key)
      THEN key ELSE ""

\* ifeval_re (line 498): << key, value >> of the directive, << >> if the line
\* is none
IfevalParts(line) ==
  LET open  == "ifeval::[\"{"
      mid   == "}\" == \""
      close == "\"]"
      e     == RunEnd(line, Len(open) + 1, NameChars)
      key   == SubSeq(line, Len(open) + 1, e)
      value == SubSeq(line, e + Len(mid) + 1, Len(line) - Len(close))
  IN  IF /\ StartsWith(line, open)
         /\ IsName(key)
         /\ MatchAt(line, e + 1, mid)
         /\ EndsWith(line, close)
         /\ Len(value) > 0
         /\ ~Contains(value, "\"")
      THEN << key, value >> ELSE << >>

\* attr_re (line 496) and line 541: << key, value >> of the definition with
\* the value stripped and "" for a missing value, << >> if the line is none
AttrParts(line) ==
  LET e   == RunEnd(line, 2, NameChars)
      key == SubSeq(line, 2, e)
      ws  == RunEnd(line, e + 2, SpaceChars)
  IN  IF ~(StartsWith(line, ":") /\ IsName(key) /\ MatchAt(line, e + 1, ":"))
      THEN << >>
      ELSE IF e + 1 = Len(line) THEN << key, "" >>
      ELSE IF ws >= e + 2 THEN << key, Strip(SubSeq(line, ws + 1, Len(line))) >>
      ELSE << >>

\* attributes[key] = value
SetAttr(attributes, key, value) ==
  IF key \in Keys(attributes)
  THEN [n \in 1 .. Len(attributes) |->
          IF attributes[n][1] = key THEN << key, value >> ELSE attributes[n]]
  ELSE Append(attributes, << key, value >>)

\* attributes.get(key): << value >>, or << >> for None
GetAttr(attributes, key) ==
  IF key \in Keys(attributes) THEN << Lookup(attributes, key) >> ELSE << >>

\* line 520 / 528: active_block_stack.append(in_active_block)
PushBlockIfActive(stack, active) ==
  IF active THEN Append(stack, active) ELSE stack

PushBlock(stack, active) == Append(stack, active)

\* line 521 / 530: in_active_block and <the directive's own condition>
OwnConditionOnly(active, cond) == cond

NextActive(active, cond) == active /\ cond

\* re.findall(r'\{([\w-]+)\}', value) from position p on (line 553)
RECURSIVE PlaceholdersFrom(_, _)
PlaceholdersFrom(value, p) ==
  LET starts == {q \in p .. Len(value) : PlaceholderEnd(value, q) > 0}
  IN  IF starts = {} THEN << >>
      ELSE LET q == Min(starts)
               e == PlaceholderEnd(value, q)
           IN  << SubSeq(value, q + 1, e - 1) >> \o PlaceholdersFrom(value, e + 1)

Placeholders(value) == PlaceholdersFrom(value, 1)

\* every placeholder replaced, by nothing when its name is not a key
RECURSIVE ExpandOrDelete(_, _, _, _)
ExpandOrDelete(new_value, placeholders, attributes, n) ==
  IF n > Len(placeholders) THEN new_value
  ELSE ExpandOrDelete(
         Replace(new_value, "{" \o placeholders[n] \o "}",
                 IF placeholders[n] \in Keys(attributes)
                 THEN Lookup(attributes, placeholders[n]) ELSE ""),
         placeholders, attributes, n + 1)

\* lines 558-561: new_value after the placeholders n.. have been tried
RECURSIVE ExpandValue(_, _, _, _)
ExpandValue(new_value, placeholders, attributes, n) ==
  IF n > Len(placeholders) THEN new_value
  ELSE ExpandValue(
         IF placeholders[n] \in Keys(attributes)
         THEN Replace(new_value, "{" \o placeholders[n] \o "}",
                      Lookup(attributes, placeholders[n]))
         ELSE new_value,
         placeholders, attributes, n + 1)

\* lines 550-562: the table after the items n.. of one pass have been visited
RECURSIVE ExpandItems(_, _)
ExpandItems(attributes, n) ==
  IF n > Len(attributes) THEN attributes
  ELSE LET value == attributes[n][2]
           placeholders == Placeholders(value)
       IN  IF ~Contains(value, "{") \/ placeholders = << >>
           THEN ExpandItems(attributes, n + 1)
           ELSE ExpandItems(
                  SetAttr(attributes, attributes[n][1],
                          ExpandValue(value, placeholders, attributes, 1)),
                  n + 1)

\* lines 549-557: `unresolved` after a pass over the table
AnyPlaceholder(attributes) ==
  \E n \in 1 .. Len(attributes) :
     Contains(attributes[n][2], "{") /\ Placeholders(attributes[n][2]) # << >>

\* lines 544-562: the table the passes end with, `left` passes remaining
RECURSIVE SecondPass(_, _, _)
SecondPass(attributes, unresolved_flag, left) ==
  IF left = 0 \/ ~unresolved_flag THEN attributes
  ELSE SecondPass(ExpandItems(attributes, 1), AnyPlaceholder(attributes),
                  left - 1)

(***************************************************************************)
(* Brands: load_brand_config_from_entities, post_process_description and   *)
(* resolve_entities_in_string.  A brand is a record of key, name, family.  *)
(***************************************************************************)
\* lines 301-303, for the << key, name >> pairs the pattern of line 298 finds
load_brand_config_from_entities(matches) ==
  [n \in 1 .. Len(matches) |->
     [key    |-> matches[n][1],
      name   |-> Strip(matches[n][2]),
      family |-> IF Contains(Lower(matches[n][2]), "opensuse")
                    \/ Contains(Lower(matches[n][2]), "leap")
                 THEN "opensuse" ELSE "suse"]]

\* the brands in load order
LoadOrder(brands) == brands

\* sorted(brands, key=lambda b: len(b['key']), reverse=True) (lines 314, 361)
RECURSIVE InsertByKeyLen(_, _)
InsertByKeyLen(sorted, brand) ==
  IF Len(sorted) = 0 THEN << brand >>
  ELSE IF Len(brand.key) > Len(sorted[1].key) THEN << brand >> \o sorted
       ELSE << sorted[1] >> \o InsertByKeyLen(Tail(sorted), brand)

RECURSIVE SortByKeyLenDesc(_)
SortByKeyLenDesc(brands) ==
  IF Len(brands) = 0 THEN << >>
  ELSE InsertByKeyLen(SortByKeyLenDesc(SubSeq(brands, 1, Len(brands) - 1)),
                      brands[Len(brands)])

\* lines 313-318: << the brand >> the file path is classified into, << >> if
\* none
FileContext(file_path, brands) ==
  LET sorted_brands == SortByKeyLenDesc(brands)
      hits == {n \in 1 .. Len(sorted_brands) :
                 SearchWordCI(file_path, sorted_brands[n].key)}
  IN  IF hits = {} THEN << >> ELSE << sorted_brands[Min(hits)] >>

\* the elements of a sequence without repetitions, first occurrences kept
RECURSIVE Distinct(_)
Distinct(seq) ==
  IF Len(seq) = 0 THEN << >>
  ELSE LET front == Distinct(SubSeq(seq, 1, Len(seq) - 1))
           last  == seq[Len(seq)]
       IN  IF \E n \in 1 .. Len(front) : front[n] = last THEN front
           ELSE Append(front, last)

\* lines 326-329: the keywords one brand contributes
BrandKeywords(brand) ==
  LET words == Split(brand.name)
  IN  << brand.name >>
        \o SelectSeq(words, LAMBDA word : Len(word) > 3)

\* lines 323-329: the banned keywords, without repetitions
RECURSIVE BannedFrom(_, _, _)
BannedFrom(brands, family, n) ==
  IF n > Len(brands) THEN << >>
  ELSE (IF brands[n].family # family THEN BrandKeywords(brands[n]) ELSE << >>)
         \o BannedFrom(brands, family, n + 1)

banned_keywords(brands, file_context) ==
  Distinct(BannedFrom(brands, file_context.family, 1))

\* the keywords n.. removed wherever they occur, inside words too
RECURSIVE RemoveSubstrings(_, _, _)
RemoveSubstrings(description, keywords, n) ==
  IF n > Len(keywords) THEN description
  ELSE RemoveSubstrings(ReplaceCI(description, keywords[n], ""),
                        keywords, n + 1)

\* lines 335-338: the keywords n.. removed, each as a whole word whatever its
\* case
RECURSIVE RemoveKeywords(_, _, _)
RemoveKeywords(description, keywords, n) ==
  IF n > Len(keywords) THEN description
  ELSE RemoveKeywords(
         IF SearchWordCI(description, keywords[n])
         THEN RemoveWordCI(description, keywords[n])
         ELSE description,
         keywords, n + 1)

\* re.sub with a constant replacement: ends[q] is the last position of the
\* match that starts at q (less than q if none starts there), starts the
\* positions where one starts; matches are taken leftmost first and do not
\* overlap
RECURSIVE SubFrom(_, _, _, _, _)
SubFrom(s, p, starts, ends, rep) ==
  LET rest == {q \in starts : q >= p}
  IN  IF rest = {} THEN SubSeq(s, p, Len(s))
      ELSE LET q == Min(rest)
           IN  SubSeq(s, p, q - 1) \o rep \o SubFrom(s, ends[q] + 1, starts, ends, rep)

SubAll(s, ends, rep) ==
  IF s = "" THEN ""
  ELSE SubFrom(s, 1, {q \in 1 .. Len(s) : ends[q] >= q}, ends, rep)

\* the last position of the whitespace run \s* that starts at q
SkipSpace(s, q) == RunEnd(s, q, SpaceChars)

\* line 344: (\w+)\s+, -> \1,  (the whitespace between a word and a comma)
fix_space_before_comma(s) ==
  SubAll(s, [q \in 1 .. Len(s) |->
               IF /\ q > 1 /\ IsWord(At(s, q - 1)) /\ IsSpace(At(s, q))
                  /\ At(s, SkipSpace(s, q) + 1) = ","
               THEN SkipSpace(s, q) + 1 ELSE 0], ",")

\* the end of the repetitions of ,\s* that start at q
RECURSIVE CommaRunEnd(_, _)
CommaRunEnd(s, q) ==
  LET e == SkipSpace(s, q + 1)
  IN  IF At(s, e + 1) = "," THEN CommaRunEnd(s, e + 1) ELSE e

\* line 345: (,\s*){2,} -> ,
fix_multiple_commas(s) ==
  SubAll(s, [q \in 1 .. Len(s) |->
               IF At(s, q) = "," /\ At(s, SkipSpace(s, q + 1) + 1) = ","
               THEN CommaRunEnd(s, q) ELSE 0], ",")

\* the end of ,\s*(and|or)\s*, at q, 0 if it does not match there
ConjunctionEnd(s, q) ==
  LET w == SkipSpace(s, q + 1) + 1
      AfterWord(word) ==
        IF MatchAt(s, w, word)
           /\ At(s, SkipSpace(s, w + Len(word)) + 1) = ","
        THEN SkipSpace(s, w + Len(word)) + 1 ELSE 0
  IN  IF At(s, q) # "," THEN 0
      ELSE IF AfterWord("and") > 0 THEN AfterWord("and") ELSE AfterWord("or")

\* line 346: ,\s*(and|or)\s*, -> ,
fix_dangling_conjunction(s) ==
  SubAll(s, [q \in 1 .. Len(s) |-> ConjunctionEnd(s, q)], ",")

\* line 347: \b(and|or|a|the|on|of)\s*$ -> ''
drop_trailing_article(s) ==
  LET low == Lower(s)
  IN  SubAll(s, [q \in 1 .. Len(s) |->
                   IF /\ Boundary(s, q)
                      /\ \E word \in {"and", "or", "a", "the", "on", "of"} :
                            /\ MatchAt(low, q, word)
                            /\ SkipSpace(s, q + Len(word)) = Len(s)
                   THEN Len(s) ELSE 0], "")

\* the end of \b(on|of)\s+(and|or)\b at q, 0 if it does not match there
PrepositionPairEnd(s, low, q) ==
  LET w == SkipSpace(s, q + 2) + 1
      AfterWord(word) ==
        IF MatchAt(low, w, word) /\ Boundary(s, w + Len(word))
        THEN w + Len(word) - 1 ELSE 0
  IN  IF ~(/\ Boundary(s, q)
           /\ (MatchAt(low, q, "on") \/ MatchAt(low, q, "of"))
           /\ w > q + 2)
      THEN 0
      ELSE IF AfterWord("and") > 0 THEN AfterWord("and") ELSE AfterWord("or")

\* line 348: \b(on|of)\s+(and|or)\b -> ''
drop_preposition_pair(s) ==
  LET low == Lower(s)
  IN  SubAll(s, [q \in 1 .. Len(s) |-> PrepositionPairEnd(s, low, q)], "")

\* line 349: ,\s*\. -> .
fix_comma_period(s) ==
  SubAll(s, [q \in 1 .. Len(s) |->
               IF At(s, q) = "," /\ At(s, SkipSpace(s, q + 1) + 1) = "."
               THEN SkipSpace(s, q + 1) + 1 ELSE 0], ".")

\* lines 343-353: the repair of the grammar around removed keywords
repair_grammar(description) ==
  LET s1 == Strip(CollapseSpaces(description, 2))
      s2 == fix_dangling_conjunction(fix_multiple_commas(fix_space_before_comma(s1)))
      s3 == fix_comma_period(drop_preposition_pair(drop_trailing_article(s2)))
      s4 == Replace(Replace(s3, " ,", ","), " .", ".")
  IN  Strip(Strip(CollapseSpaces(s4, 2)))

\* lines 308-355: the corrected description and the update status ("None"
\* for None)
post_process_description(description, file_path, brands) ==
  LET unchanged == [description |-> description, update_status |-> "None"]
      file_context == FileContext(file_path, brands)
  IN  IF Len(brands) = 0 \/ file_context = << >> THEN unchanged
      ELSE LET keywords == banned_keywords(brands, file_context[1])
               removed  == RemoveKeywords(description, SortByLenDesc(keywords), 1)
           IN  IF Len(keywords) = 0 \/ removed = description THEN unchanged
               ELSE [description   |-> repair_grammar(removed),
                     update_status |-> "UPDATED"]

\* lines 362-365: the references to the brands n.. expanded
RECURSIVE ExpandEntities(_, _, _)
ExpandEntities(text, sorted_brands, n) ==
  IF n > Len(sorted_brands) THEN text
  ELSE ExpandEntities(
         Replace(text, "&" \o sorted_brands[n].key \o ";", sorted_brands[n].name),
         sorted_brands, n + 1)

\* the text with its entity references left as they are
KeepEntities(text, brands) == text

\* lines 357-366
resolve_entities_in_string(text, brands) ==
  ExpandEntities(text, SortByKeyLenDesc(brands), 1)

(***************************************************************************)
(* AsciiDoc files: the description and title patterns, the payload and the *)
(* write-back of process_adoc_file.                                        *)
(***************************************************************************)
\* the ascending sequence of the elements of a set of numbers
RECURSIVE Ascending(_)
Ascending(S) ==
  IF S = {} THEN << >> ELSE << Min(S) >> \o Ascending(S \ {Min(S)})

\* the last position of the line that starts at a
LineEnd(text, a) ==
  (CHOOSE e \in a .. Len(text) + 1 :
     /\ e = Len(text) + 1 \/ At(text, e) = "\n"
     /\ \A n \in a .. e - 1 : At(text, n) # "\n") - 1

\* str.splitlines()
SplitLines(text) ==
  LET starts == Ascending({1} \cup {q + 1 : q \in {n \in 1 .. Len(text) - 1 :
                                                     At(text, n) = "\n"}})
  IN  IF text = "" THEN << >>
      ELSE [n \in 1 .. Len(starts) |->
              IF LineEnd(text, starts[n]) < starts[n] THEN ""
              ELSE SubSeq(text, starts[n], LineEnd(text, starts[n]))]

\* "\n".join(lines)
JoinLines(lines) == Join(lines, "\n")

\* ^ at position p: the start of the text, with re.MULTILINE also the start
\* of a line
Caret(text, p, multiline) ==
  p = 1 \/ (multiline /\ At(text, p - 1) = "\n")

\* DESC_RE is compiled with re.IGNORECASE only (line 122)
DESC_RE_MULTILINE == FALSE

\* :\s*description\s*:\s* at position p, whatever the case
DescAt(text, p) ==
  LET a == SkipSpace(text, p + 1) + 1
  IN  /\ At(text, p) = ":"
      /\ MatchAt(Lower(text), a, "description")
      /\ At(text, SkipSpace(text, a + Len("description")) + 1) = ":"

\* config.DESC_RE.search(raw_text) (line 619)
DESC_RE_search(raw_text) ==
  \E p \in 1 .. Len(raw_text) :
     Caret(raw_text, p, DESC_RE_MULTILINE) /\ DescAt(raw_text, p)

\* config.DESC_RE.match(line) (line 662)
DESC_RE_match(line) == DescAt(line, 1)

\* config.TITLE_RE.match(line): ^\s*=\s+.+ (lines 121, 592, 668) on one line
TITLE_RE_match(line) ==
  LET a == SkipSpace(line, 1) + 1
  IN  /\ At(line, a) = "="
      /\ IsSpace(At(line, a + 1))
      /\ Len(line) >= a + 2

\* lines 591-595: the number of header lines
RECURSIVE HeaderEnd(_, _)
HeaderEnd(lines, header_end) ==
  IF /\ header_end < Len(lines)
     /\ LET stripped == Strip(lines[header_end + 1])
        IN  StartsWith(stripped, ":") \/ stripped = ""
  THEN HeaderEnd(lines, header_end + 1)
  ELSE header_end

\* line 598: ^==+\s+.*$ -> '' with re.MULTILINE
drop_section_titles(text) ==
  SubAll(text, [q \in 1 .. Len(text) |->
                  LET e == RunEnd(text, q, {"="})
                  IN  IF /\ Caret(text, q, TRUE)
                         /\ e >= q + 1
                         /\ IsSpace(At(text, e + 1))
                      THEN LineEnd(text, SkipSpace(text, e + 1) + 1)
                      ELSE 0], "")

\* line 599: ^[\*\.\-]+\s+ -> '' with re.MULTILINE
drop_list_markers(text) ==
  SubAll(text, [q \in 1 .. Len(text) |->
                  LET e == RunEnd(text, q, {"*", ".", "-"})
                  IN  IF /\ Caret(text, q, TRUE)
                         /\ e >= q
                         /\ IsSpace(At(text, e + 1))
                      THEN SkipSpace(text, e + 1)
                      ELSE 0], "")

\* line 606: //.*$ -> '' with re.MULTILINE
drop_comments(text) ==
  SubAll(text, [q \in 1 .. Len(text) |->
                  IF MatchAt(text, q, "//") THEN LineEnd(text, q) ELSE 0], "")

\* line 611: \n{2,} -> \n
collapse_newlines(text) ==
  SubAll(text, [q \in 1 .. Len(text) |->
                  IF At(text, q) = "\n" /\ At(text, q + 1) = "\n"
                  THEN RunEnd(text, q, {"\n"}) ELSE 0], "\n")

PAYLOAD_MAX_LEN == 4000

\* lines 588-612, for content without inline markup: anchors, cross
\* references, image and xref macros and `code`, *bold* and _italic_ spans
\* (lines 600-602 and 607-610) are not modelled
extract_adoc_payload(content) ==
  LET lines == SplitLines(content)
      header_end == IF Len(lines) > 0 /\ TITLE_RE_match(lines[1])
                    THEN HeaderEnd(lines, 1) ELSE 0
      body == JoinLines(SubSeq(lines, header_end + 1, Len(lines)))
      plain == drop_comments(
                 Replace(Replace(Replace(
                   drop_list_markers(drop_section_titles(body)),
                   "|===", ""), "|", " "), "----", ""))
      text == Strip(collapse_newlines(plain))
  IN  SubSeq(text, 1, IF Len(text) < PAYLOAD_MAX_LEN THEN Len(text)
                      ELSE PAYLOAD_MAX_LEN)

\* the first position of lines that satisfies the pattern, 0 if none does
\* (next(... , -1) of lines 662 and 668)
FirstLine(lines, Pattern(_)) ==
  IF \E n \in 1 .. Len(lines) : Pattern(lines[n])
  THEN Min({n \in 1 .. Len(lines) : Pattern(lines[n])}) ELSE 0

\* the description line put before every line of the file
PrependDescription(raw_text, desc) ==
  [lines  |-> << ":description: " \o desc >> \o SplitLines(raw_text),
   status |-> "ADDED"]

\* the write-back made on the text with its attributes resolved
WriteResolved(raw_text, desc) ==
  LET lines == SplitLines(resolve_attributes(raw_text,
                            << << "product", "Leap Micro" >> >>))
      existing_desc_idx == FirstLine(lines, DESC_RE_match)
      title_idx == FirstLine(lines, TITLE_RE_match)
      new_line == ":description: " \o desc
  IN  IF existing_desc_idx # 0
      THEN [lines  |-> [lines EXCEPT ![existing_desc_idx] = new_line],
            status |-> "REPLACED"]
      ELSE [lines  |-> SubSeq(lines, 1, title_idx) \o << new_line >>
                         \o SubSeq(lines, title_idx + 1, Len(lines)),
            status |-> "ADDED"]

\* lines 661-670: the lines written back and the status
WriteBack(raw_text, desc) ==
  LET lines == SplitLines(raw_text)
      existing_desc_idx == FirstLine(lines, DESC_RE_match)
      title_idx == FirstLine(lines, TITLE_RE_match)
      new_line == ":description: " \o desc
  IN  IF existing_desc_idx # 0
      THEN [lines  |-> [lines EXCEPT ![existing_desc_idx] = new_line],
            status |-> "REPLACED"]
      ELSE [lines  |-> SubSeq(lines, 1, title_idx) \o << new_line >>
                         \o SubSeq(lines, title_idx + 1, Len(lines)),
            status |-> "ADDED"]

\* html.escape(desc) (line 844)
html_escape(desc) ==
  IF desc = "" THEN "" ELSE
  Cat([n \in 1 .. Len(desc) |->
         CASE At(desc, n) = "&"  -> "&amp;"
           [] At(desc, n) = "<"  -> "&lt;"
           [] At(desc, n) = ">"  -> "&gt;"
           [] At(desc, n) = "\"" -> "&quot;"
           [] At(desc, n) = "'"  -> "&#x27;"
           [] OTHER -> At(desc, n)])

(***************************************************************************)
(* The language model, the length gate, the report log and the DocBook     *)
(* write-back.                                                             *)
(***************************************************************************)
\* lines 368-376: an outcome of the request is a transport failure
\* (ok = FALSE) or a reply with its response text
call_ollama(outcome) ==
  IF outcome.ok THEN Strip(outcome.response) ELSE ""

\* lines 378-394, for the outcome of the validation request
validate_and_correct_grammar(sentence, outcome) ==
  IF sentence = "" THEN ""
  ELSE LET corrected_sentence == call_ollama(outcome)
       IN  IF corrected_sentence # "" /\ corrected_sentence # sentence
           THEN corrected_sentence ELSE sentence

OnlyEmpty(desc) == desc = ""

\* lines 641, 650, 759, 768: not desc or len(desc) < 100
TooShort(desc) == desc = "" \/ Len(desc) < MIN_DESC_LEN

\* a log that holds the newest entry only
KeepNewestEntry(log_list, file_path, status, details) ==
  << [filepath |-> file_path, status |-> status, details |-> details] >>

\* lines 151-153: the list after add_html_log_entry (timestamp and file type
\* left out)
add_html_log_entry(log_list, file_path, status, details) ==
  Append(log_list, [filepath |-> file_path, status |-> status,
                    details  |-> details])

\* line 739: the file has a <meta name="description"> tag
has_meta(file) == file.meta # "None"

\* lines 785-855: the DocBook file after the string modifications and the
\* status.  A DocBook file is a record: prefixed (the root and <info> tags
\* carry a namespace prefix, so that neither pattern of lines 791 and 811
\* finds its tag and lines 836-840 give the WARNING), its (the root tag
\* declares xmlns:its), info (an <info> tag exists), info_xmlns (the <info>
\* tag carries xmlns attributes), meta (the text of the description meta
\* tag, "None" without one).
WriteMeta(file, desc) ==
  IF file.prefixed
  THEN [file |-> file, status |-> "WARNING"]
  ELSE [file   |-> [file EXCEPT !.its = TRUE,
                                !.info = TRUE,
                                !.info_xmlns = FALSE,
                                !.meta = html_escape(desc)],
        status |-> IF has_meta(file) THEN "REPLACED" ELSE "ADDED"]

(***************************************************************************)
(* A run of main(): the files below a documentation root, the brands of    *)
(* the entities file, the banned terms and the replies of the language     *)
(* model.                                                                  *)
(***************************************************************************)
\* the << key, name >> declarations the pattern of line 298 finds in the
\* entities file of the run; no banned keyword of these brands contains
\* another one of the same length, so the order sorted() gives to keywords
\* of equal length does not matter
ENTITY_DECLS ==
  << << "sles", "SUSE Linux Enterprise" >>, << "leap", "openSUSE Leap" >>,
     << "sleha", "SLE HA" >>, << "rmt", "RMT: Mirror" >> >>

\* line 925
BRANDS == load_brand_config_from_entities(ENTITY_DECLS)

\* lines 901-902, for --banned-terms Kubernetes
BANNED_LITERALS == << "Kubernetes" >>

\* an AsciiDoc file on disk
Adoc(text) ==
  [kind |-> "adoc", readable |-> TRUE, utf8 |-> TRUE, writable |-> TRUE,
   text |-> text]

\* a DocBook file on disk: what lxml and the patterns of process_xml_file
\* see of it
DocBook(payload, meta) ==
  [kind |-> "xml", readable |-> TRUE, utf8 |-> TRUE, writable |-> TRUE,
   parses |-> TRUE, prefixed |-> FALSE, its |-> FALSE, info |-> TRUE,
   info_xmlns |-> TRUE, meta |-> meta, payload |-> payload]

BODY == "\n\nInstall the packages and reboot.\n"

\* the files of the documentation root, in the order sorted() gives them
Paths ==
  << "docs/leap/install.adoc", "docs/leap/upgrade.adoc",
     "docs/misc/gone.adoc", "docs/misc/legacy.adoc", "docs/misc/locked.adoc",
     "docs/misc/notes.adoc", "docs/misc/plain.adoc", "docs/misc/product.adoc",
     "docs/misc/titles.adoc", "docs/sles/broken.xml", "docs/sles/ha.xml",
     "docs/sles/latin.xml", "docs/sles/old.xml", "docs/sles/prefixed.xml" >>

\* their content before the run
InitialFiles ==
  [f \in {Paths[n] : n \in 1 .. Len(Paths)} |->
     CASE f = "docs/leap/install.adoc" ->
            Adoc("= Installation\n:revdate: 2024-01-01" \o BODY)
       [] f = "docs/leap/upgrade.adoc" ->
            Adoc("= Upgrade\n:description: Old upgrade text" \o BODY)
       [] f = "docs/misc/gone.adoc" ->
            [Adoc("") EXCEPT !.readable = FALSE]
       [] f = "docs/misc/legacy.adoc" ->
            [Adoc("= Legacy" \o BODY) EXCEPT !.utf8 = FALSE]
       [] f = "docs/misc/locked.adoc" ->
            [Adoc("Plain notes, no title." \o BODY) EXCEPT !.writable = FALSE]
       [] f = "docs/misc/notes.adoc" ->
            Adoc(":Description: Old notes\n= Notes" \o BODY)
       [] f = "docs/misc/plain.adoc" ->
            Adoc("Plain notes, no title." \o BODY)
       [] f = "docs/misc/product.adoc" ->
            Adoc("= Product\n\n// draft\n{product}\n")
       [] f = "docs/misc/titles.adoc" ->
            Adoc("// preface\n\n= Titles" \o BODY \o "= Appendix\n")
       [] f = "docs/sles/broken.xml" ->
            [DocBook("", "None") EXCEPT !.parses = FALSE]
       [] f = "docs/sles/ha.xml" ->
            DocBook("High availability\nSet up a cluster.", "None")
       [] f = "docs/sles/latin.xml" ->
            [DocBook("Legacy", "None") EXCEPT !.utf8 = FALSE]
       [] f = "docs/sles/old.xml" ->
            [DocBook("Old guide", "Old text") EXCEPT !.info_xmlns = FALSE]
       [] f = "docs/sles/prefixed.xml" ->
            [DocBook("Prefixed guide", "None") EXCEPT !.prefixed = TRUE]]

\* the attribute tables of lines 907-922
RunAttributes == { << >>, << << "product", "Leap Micro" >> >> }

\* the position of a path in the sorted order
PathRank(f) == CHOOSE n \in 1 .. Len(Paths) : Paths[n] = f

\* sorted(final_file_list) (line 945)
sorted(file_set) ==
  LET ranks == Ascending({PathRank(f) : f \in file_set})
  IN  [n \in 1 .. Len(ranks) |-> Paths[ranks[n]]]

TAIL == "on the cluster nodes of your data center"

STEM == "Learn how to configure the network stack and deploy workloads "

HYPHENS == "Learn-how-to-configure-the-network-stack-and-deploy-workloads"

\* the response texts of the language model to the two description prompts
Responses ==
  { "  " \o STEM \o TAIL \o " with the command line tools\n",
    "Configure the network stack",
    STEM \o TAIL \o " with the command line tools and then verify the complete setup before going live",
    HYPHENS \o "-" \o HYPHENS \o "-" \o HYPHENS,
    STEM \o TAIL \o " of the system.. and",
    "Learn how to use \"systemd\" units | timers > services: deploy &quot;Kubernetes&quot; jobs &gt; with ~smart$ %quotes# " \o TAIL \o " today",
    "Learn how to register &rmt; clients and migrate workloads from &leap; to &sles; " \o TAIL \o " with the tools",
    "Learn how to configure the network stack of &sles; and deploy workloads " \o TAIL \o " with the command line tools and verify the setup",
    "Learn how to migrate workloads from openSUSE Leap to SUSE Linux Enterprise " \o TAIL \o " with the command line tools",
    "Learn how to deploy SLE Linux HA clusters and configure the network stack " \o TAIL \o " with the command line tools",
    "This guide describes how to configure YaST's network stack " \o TAIL \o " and for" }

\* the outcomes of a description request: a transport failure or a reply
Outcomes ==
  { [ok |-> FALSE, response |-> ""] }
    \cup { [ok |-> TRUE, response |-> r] : r \in Responses }

\* the outcomes of a validation request: a failure, the sentence unchanged
\* (or nothing), a rewritten sentence
GrammarOutcomes ==
  { [ok |-> FALSE, response |-> ""], [ok |-> TRUE, response |-> ""],
    [ok |-> TRUE,
     response |-> "Learn how to migrate workloads from openSUSE Leap to SUSE Linux Enterprise and configure the network stack " \o TAIL] }

\* the outcomes in a run over several files
BatchOutcomes ==
  { [ok |-> FALSE, response |-> ""],
    [ok |-> TRUE, response |-> STEM \o TAIL \o " with the command line tools"] }

\* post_process_description (lines 637, 646, 755, 764) over the files and
\* the drafts of the run
BrandTable ==
  [f \in {Paths[n] : n \in 1 .. Len(Paths)},
   d \in {call_ollama(o) : o \in Outcomes \cup BatchOutcomes} |->
     post_process_description(d, f, BRANDS)]

\* sanitize_and_finalize (lines 639, 648, 757, 766) over the sentences that
\* reach it in the run
SanitizeTable ==
  [c \in {validate_and_correct_grammar(BrandTable[a].description, g) :
            a \in DOMAIN BrandTable, g \in GrammarOutcomes} |->
     sanitize_and_finalize(c, BANNED_LITERALS)]

(***************************************************************************)
(* State.                                                                  *)
(***************************************************************************)
VARIABLES
  \* resolve_attributes: position, text, the table, passes made, the argument
  ra_pc, ra_text, ra_attributes, ra_iter, ra_input,
  \* load_and_process_adoc_attributes: position, the table, the conditional
  \* state, the second pass's flag and pass count, the build context;
  \* la_read is the stripped lines read so far and conds the own condition
  \* of each open conditional block (both are history, not program state)
  la_pc, la_attributes, in_active_block, active_block_stack, unresolved,
  la_iter, initial_context, la_read, conds,
  \* main and the file processors: the command line (force_overwrite,
  \* dry_run, html_log), the attribute table, the files on disk, the files to
  \* process, the position in main and in the processor of the current file,
  \* the number of files whose processing has started, the draft, desc and
  \* update_status of the current file, and changed_files_count;
  \* html_log_calls is the arguments of every add_html_log_entry call,
  \* prompts the prompt templates sent for the current file and llm_ok
  \* whether its last description request was answered, steps the calls
  \* made for the current file in the order of the code (history)
  args, run_attributes, disk, final_file_list, pc, started, cur_draft,
  cur_desc, cur_update_status, changed_files_count, html_log_calls, prompts,
  llm_ok, steps,
  \* a call of one function on its own: the function, its arguments and the
  \* values returned so far, the function applied again to its last result
  call_fn, call_args, call_results

resolver_vars == << ra_pc, ra_text, ra_attributes, ra_iter, ra_input >>

loader_vars == << la_pc, la_attributes, in_active_block, active_block_stack,
                  unresolved, la_iter, initial_context, la_read, conds >>

run_vars == << args, run_attributes, disk, final_file_list, pc, started,
               cur_draft, cur_desc, cur_update_status, changed_files_count,
               html_log_calls, prompts, llm_ok, steps >>

call_vars == << call_fn, call_args, call_results >>

vars == << resolver_vars, loader_vars, run_vars, call_vars >>

ResolverIdle ==
  /\ ra_pc = "idle" /\ ra_text = "" /\ ra_attributes = << >>
  /\ ra_iter = 0 /\ ra_input = ""

LoaderIdle ==
  /\ la_pc = "idle" /\ la_attributes = << >> /\ in_active_block = TRUE
  /\ active_block_stack = << >> /\ unresolved = TRUE /\ la_iter = 0
  /\ initial_context = << >> /\ la_read = << >> /\ conds = << >>

RunIdle ==
  /\ args = [force_overwrite |-> FALSE, dry_run |-> FALSE, html_log |-> FALSE]
  /\ run_attributes = << >> /\ disk = << >> /\ final_file_list = {}
  /\ pc = "idle" /\ started = 0 /\ cur_draft = "" /\ cur_desc = ""
  /\ cur_update_status = "None" /\ changed_files_count = 0
  /\ html_log_calls = << >> /\ prompts = << >> /\ llm_ok = TRUE
  /\ steps = << >>

CallIdle == call_fn = "" /\ call_args = << >> /\ call_results = << >>

\* line 926: the report log, empty when there is none (None)
html_log_entries == IF args.html_log THEN html_log_calls ELSE << >>

(***************************************************************************)
(* resolve_attributes, one pass of its loop per step.                      *)
(***************************************************************************)
MaxChain == 11
MaxPerm == 4

Name(n) == SubSeq("abcdefghijklmnopqrstuvwxyz", n, n)

Affixes == {"", "v"}

\* the chain a -> b -> ... of n keys, the last one with the value "X"
Chain(n, affix) ==
  [m \in 1 .. n |->
     << Name(m), IF m = n THEN "X" ELSE affix \o "{" \o Name(m + 1) \o "}" >>]

Perms(n) == {f \in [1 .. n -> 1 .. n] : \A a, b \in 1 .. n : a # b => f[a] # f[b]}

Orders(n) ==
  IF n <= MaxPerm THEN Perms(n)
  ELSE {[m \in 1 .. n |-> m], [m \in 1 .. n |-> n + 1 - m]}

Tables(n) ==
  {[m \in 1 .. n |-> Chain(n, affix)[ord[m]]] : affix \in Affixes, ord \in Orders(n)}

Texts(n) == {"{a}", "x{a}y{a}", "{a}-{" \o Name(n) \o "}"}

InitResolve ==
  /\ \E n \in 1 .. MaxChain :
       /\ ra_attributes \in Tables(n)
       /\ ra_text \in Texts(n)
  /\ ra_input = ra_text
  /\ ra_pc = "loop"
  /\ ra_iter = 0
  /\ LoaderIdle
  /\ RunIdle
  /\ CallIdle

\* lines 572-582: one iteration of the loop that changes the text
ResolveIteration ==
  /\ ra_pc = "loop"
  /\ Len(ra_attributes) > 0
  /\ ra_iter < ITER_CAP
  /\ ~ResolveStops(ra_text, ra_attributes)
  /\ ra_text' = ResolvePass(ra_text, ra_attributes)
  /\ ra_iter' = ra_iter + 1
  /\ UNCHANGED << ra_pc, ra_attributes, ra_input, loader_vars, run_vars, call_vars >>

\* lines 570, 573-574, 580-581, 585-586: the loop ends and the remaining
\* placeholders are removed
ResolveReturn ==
  /\ ra_pc = "loop"
  /\ \/ Len(ra_attributes) = 0
     \/ ra_iter = ITER_CAP
     \/ ResolveStops(ra_text, ra_attributes)
  /\ ra_text' = DeletePlaceholders(ra_text)
  /\ ra_pc' = "done"
  /\ UNCHANGED << ra_attributes, ra_iter, ra_input, loader_vars, run_vars, call_vars >>

NextResolve == ResolveIteration \/ ResolveReturn

SpecResolve == InitResolve /\ [][NextResolve]_vars

(***************************************************************************)
(* resolve_attributes on tables with circular definitions and on texts     *)
(* with nested braces, under the fairness of a running loop.               *)
(***************************************************************************)
\* the circular pair a -> {b}, b -> {a}
Circular == << << "a", "{b}" >>, << "b", "{a}" >> >>

\* a cycle of three keys in the dict order that makes every pass change the
\* text
Cycle3 == << << "c", "{a}" >>, << "b", "{c}" >>, << "a", "{b}" >> >>

Reversed(attributes) ==
  [m \in 1 .. Len(attributes) |-> attributes[Len(attributes) + 1 - m]]

CircularTables ==
  { << >>, Circular, Reversed(Circular), Cycle3, Reversed(Cycle3),
    << << "a", "{a}" >> >>, << << "b", "" >>, << "ac", "Z" >> >>,
    << << "b", "{u}" >> >> }

NestedTexts ==
  { "{a}", "{b}", "x{a}y{b}", "{a{b}c}", "{{a}}", "{a{u}}", "{u}-{}-{u v}",
    "{a{b{u}}c}" }

InitCircular ==
  /\ ra_attributes \in CircularTables
  /\ ra_text \in NestedTexts
  /\ ra_input = ra_text
  /\ ra_pc = "loop"
  /\ ra_iter = 0
  /\ LoaderIdle
  /\ RunIdle
  /\ CallIdle

\* the loop is a for loop of straight-line code: it always takes its next
\* step
SpecCircular == InitCircular /\ [][NextResolve]_vars /\ WF_vars(NextResolve)

(***************************************************************************)
(* load_and_process_adoc_attributes, one line of the file per step of the  *)
(* first pass and one pass over the table per step of the second.          *)
(***************************************************************************)
MaxLines == 4

\* the lines an attributes file is made of
AttrLines ==
  {"", "// build flags", "endif::[]", "ifndef::x[]",
   "ifeval::[\"{x}\" == \"1\"]", ":y: 1", "  :x:", "ifdef::x[]",
   ":z: {y}{u}"}

InitialContexts == {<< >>, << << "x", "1" >> >>}

InitAttr ==
  /\ la_pc = "start"
  /\ initial_context \in InitialContexts
  /\ la_attributes = << >>
  /\ in_active_block = TRUE
  /\ active_block_stack = << >>
  /\ unresolved = TRUE
  /\ la_iter = 0
  /\ la_read = << >>
  /\ conds = << >>
  /\ ResolverIdle
  /\ RunIdle
  /\ CallIdle

\* lines 488-490
AttrFileNotFound ==
  /\ la_pc = "start"
  /\ la_pc' = "done"
  /\ UNCHANGED << la_attributes, in_active_block, active_block_stack,
                  unresolved, la_iter, initial_context, la_read, conds,
                  resolver_vars, run_vars, call_vars >>

\* lines 492-503
AttrOpen ==
  /\ la_pc = "start"
  /\ la_attributes' = initial_context
  /\ in_active_block' = TRUE
  /\ active_block_stack' = << >>
  /\ la_pc' = "first_pass"
  /\ UNCHANGED << unresolved, la_iter, initial_context, la_read, conds,
                  resolver_vars, run_vars, call_vars >>

\* lines 520-521 and 528-530: a conditional block is opened
OpenBlock(cond) ==
  /\ active_block_stack' = PushBlock(active_block_stack, in_active_block)
  /\ in_active_block' = NextActive(in_active_block, cond)
  /\ conds' = Append(conds, cond)
  /\ UNCHANGED la_attributes

\* lines 505-541: the body of the loop for one line of the file
ReadLine(raw) ==
  LET line == Strip(raw) IN
  /\ la_pc = "first_pass"
  /\ Len(la_read) < MaxLines
  /\ la_read' = Append(la_read, line)
  /\ IF line = "" \/ StartsWith(line, "//")
     THEN UNCHANGED << la_attributes, in_active_block, active_block_stack, conds >>
     ELSE IF IsEndif(line)
     THEN /\ IF active_block_stack # << >>
             THEN /\ in_active_block' = active_block_stack[Len(active_block_stack)]
                  /\ active_block_stack' =
                       SubSeq(active_block_stack, 1, Len(active_block_stack) - 1)
                  /\ conds' = SubSeq(conds, 1, Len(conds) - 1)
             ELSE UNCHANGED << in_active_block, active_block_stack, conds >>
          /\ UNCHANGED la_attributes
     ELSE IF IfndefKey(line) # ""
     THEN OpenBlock(IfndefKey(line) \notin Keys(la_attributes))
     ELSE IF IfevalParts(line) # << >>
     THEN OpenBlock(GetAttr(la_attributes, IfevalParts(line)[1])
                      = << IfevalParts(line)[2] >>)
     ELSE /\ IF in_active_block /\ AttrParts(line) # << >>
             THEN la_attributes' =
                    SetAttr(la_attributes, AttrParts(line)[1], AttrParts(line)[2])
             ELSE UNCHANGED la_attributes
          /\ UNCHANGED << in_active_block, active_block_stack, conds >>
  /\ UNCHANGED << la_pc, unresolved, la_iter, initial_context, resolver_vars, run_vars, call_vars >>

\* lines 505, 544: the file is read to its end
EndOfFile ==
  /\ la_pc = "first_pass"
  /\ la_pc' = "second_pass"
  /\ unresolved' = TRUE
  /\ la_iter' = 0
  /\ UNCHANGED << la_attributes, in_active_block, active_block_stack,
                  initial_context, la_read, conds, resolver_vars, run_vars, call_vars >>

\* lines 546-562: one pass over the table
ExpandPass ==
  /\ la_pc = "second_pass"
  /\ la_iter < ITER_CAP
  /\ unresolved
  /\ unresolved' = AnyPlaceholder(la_attributes)
  /\ la_attributes' = ExpandItems(la_attributes, 1)
  /\ la_iter' = la_iter + 1
  /\ UNCHANGED << la_pc, in_active_block, active_block_stack,
                  initial_context, la_read, conds, resolver_vars, run_vars, call_vars >>

\* lines 546-548, 564-565
AttrReturn ==
  /\ la_pc = "second_pass"
  /\ la_iter = ITER_CAP \/ ~unresolved
  /\ la_pc' = "done"
  /\ UNCHANGED << la_attributes, in_active_block, active_block_stack,
                  unresolved, la_iter, initial_context, la_read, conds,
                  resolver_vars, run_vars, call_vars >>

NextAttr ==
  \/ AttrFileNotFound
  \/ AttrOpen
  \/ \E raw \in AttrLines : ReadLine(raw)
  \/ EndOfFile
  \/ ExpandPass
  \/ AttrReturn

SpecAttr == InitAttr /\ [][NextAttr]_vars

(***************************************************************************)
(* The second pass of load_and_process_adoc_attributes on the table that   *)
(* the first pass builds from a file of attribute definitions.             *)
(***************************************************************************)
MaxDefs == 3

\* attribute definitions: a circular pair, a self reference, references to
\* the undefined u, a definition with no value
DefLines ==
  {":a: {b}", ":b: {a}", ":b: X", ":c: {a}-{u}", ":z: {u}", ":y: 1{y}",
   ":e:"}

DefFiles == UNION {[1 .. n -> DefLines] : n \in 1 .. MaxDefs}

\* lines 505-541 for the lines n.. of a file of definitions outside any
\* conditional block
RECURSIVE FirstPass(_, _, _)
FirstPass(attributes, lines, n) ==
  IF n > Len(lines) THEN attributes
  ELSE FirstPass(SetAttr(attributes, AttrParts(lines[n])[1],
                         AttrParts(lines[n])[2]),
                 lines, n + 1)

\* line 544: the file la_read has been read to its end
InitExpand ==
  /\ la_pc = "second_pass"
  /\ initial_context = << >>
  /\ la_read \in DefFiles
  /\ la_attributes = FirstPass(<< >>, la_read, 1)
  /\ in_active_block = TRUE
  /\ active_block_stack = << >>
  /\ unresolved = TRUE
  /\ la_iter = 0
  /\ conds = << >>
  /\ ResolverIdle
  /\ RunIdle
  /\ CallIdle

NextExpand == ExpandPass \/ AttrReturn

SpecExpand == InitExpand /\ [][NextExpand]_vars

(***************************************************************************)
(* main() and the file processors.  The processing of one file is split   *)
(* at its requests to the language model.                                  *)
(***************************************************************************)
\* the file the loop of line 945 is at
path == sorted(final_file_list)[started]

\* the end of a processor that returns None: back in the loop of main
ReturnNone(file_path, status, details) ==
  /\ html_log_calls' = add_html_log_entry(html_log_calls, file_path, status, details)
  /\ pc' = "loop"
  /\ UNCHANGED << disk, changed_files_count >>

\* lines 617-632 and 693-749: a file is taken from the sorted list, read and
\* its payload extracted
StartFile ==
  /\ pc = "loop"
  /\ started < Cardinality(final_file_list)
  /\ started' = started + 1
  /\ prompts' = << >>
  /\ LET next_path == sorted(final_file_list)[started + 1]
         file == disk[next_path]
     IN  steps' =
           IF ~file.readable \/ (file.kind = "xml" /\ ~file.parses)
           THEN << >>
           ELSE IF file.kind = "xml" THEN << "ET.parse", "read_text" >>
           ELSE IF ~file.utf8 THEN << "read_text" >>
           ELSE IF DESC_RE_search(file.text) /\ ~args.force_overwrite
           THEN << "read_text" >>
           ELSE << "read_text", "resolve_attributes", "extract_adoc_payload" >>
  /\ LET next_path == sorted(final_file_list)[started + 1]
         file == disk[next_path]
     IN  IF ~file.readable
         THEN \* IOError, caught at lines 679 and 865
              ReturnNone(next_path, "ERROR", "IOError")
         ELSE IF file.kind = "xml" /\ ~file.parses
         THEN \* XMLSyntaxError of line 697, caught at line 865
              ReturnNone(next_path, "ERROR", "XMLSyntaxError")
         ELSE IF ~file.utf8
         THEN \* UnicodeDecodeError of read_text (lines 618, 738): a
              \* ValueError, which no except clause of the processors or of
              \* main catches
              /\ pc' = "crashed"
              /\ UNCHANGED << disk, changed_files_count, html_log_calls >>
         ELSE IF file.kind = "adoc"
         THEN IF DESC_RE_search(file.text) /\ ~args.force_overwrite
              THEN ReturnNone(next_path, "SKIPPED", "File already has a description.")
              ELSE IF Strip(extract_adoc_payload(
                              resolve_attributes(file.text, run_attributes))) = ""
              THEN ReturnNone(next_path, "WARNING", "Empty content payload after extraction.")
              ELSE /\ pc' = "first_pass"
                   /\ UNCHANGED << disk, changed_files_count, html_log_calls >>
         ELSE IF has_meta(file) /\ ~args.force_overwrite
              THEN ReturnNone(next_path, "SKIPPED",
                              "File already has a <meta name='description'> tag.")
              ELSE IF Strip(file.payload) = ""
              THEN ReturnNone(next_path, "WARNING", "Empty content payload after extraction.")
              ELSE /\ pc' = "first_pass"
                   /\ UNCHANGED << disk, changed_files_count, html_log_calls >>
  /\ UNCHANGED << args, run_attributes, final_file_list, cur_draft, cur_desc,
                  cur_update_status, llm_ok, resolver_vars, loader_vars, call_vars >>

\* lines 634-654 and 752-772: a description request with the first prompt or
\* the retry prompt, brand correction, grammar validation, sanitization and
\* the length gate; o is the outcome of the description request and g that
\* of the validation request
Generate(o, g) ==
  /\ pc \in {"first_pass", "retry"}
  /\ LET draft == call_ollama(o)
         branded == BrandTable[path, draft]
         desc == SanitizeTable[validate_and_correct_grammar(branded.description, g)]
     IN  /\ prompts' = Append(prompts, IF pc = "first_pass" THEN "PROMPT_TMPL"
                                       ELSE "PROMPT_TMPL_RETRY")
         /\ llm_ok' = o.ok
         /\ steps' = steps \o << "call_ollama", "post_process_description",
                                 "validate_and_correct_grammar",
                                 "sanitize_and_finalize", "length_gate" >>
         /\ cur_draft' = draft
         /\ cur_update_status' = branded.update_status
         /\ cur_desc' = desc
         /\ IF ~TooShort(desc)
            THEN /\ pc' = "finish"
                 /\ UNCHANGED html_log_calls
            ELSE IF pc = "first_pass"
            THEN /\ pc' = "retry"
                 /\ UNCHANGED html_log_calls
            ELSE /\ pc' = "loop"
                 /\ html_log_calls' =
                      add_html_log_entry(html_log_calls, path, "ERROR",
                        "Generated description still too short after retry.")
  /\ UNCHANGED << args, run_attributes, disk, final_file_list, started,
                  changed_files_count, resolver_vars, loader_vars, call_vars >>

\* the end of a file in a run that writes whether or not it is a dry run
WriteInDryRun ==
  /\ pc = "finish"
  /\ pc' = "loop"
  /\ LET file == disk[path]
         desc == IF file.kind = "xml"
                 THEN resolve_entities_in_string(cur_desc, BRANDS)
                 ELSE cur_desc
         written == IF file.kind = "xml" THEN WriteMeta(file, desc)
                    ELSE LET wb == WriteBack(file.text, desc)
                         IN  [file   |-> [file EXCEPT
                                            !.text = JoinLines(wb.lines) \o "\n"],
                              status |-> wb.status]
         status == IF cur_update_status # "None" THEN cur_update_status
                   ELSE written.status
     IN  /\ cur_desc' = desc
         /\ steps' = steps
              \o (IF file.kind = "xml" THEN << "resolve_entities_in_string" >>
                  ELSE << >>)
              \o (IF written.status = "WARNING" THEN << >>
                  ELSE << "write_text" >>)
         /\ IF written.status = "WARNING"
            THEN /\ html_log_calls' =
                      add_html_log_entry(html_log_calls, path, "WARNING",
                        "No <info> block found and could not create one.")
                 /\ UNCHANGED << disk, changed_files_count >>
            ELSE IF ~file.writable
            THEN \* IOError of write_text, caught at lines 679 and 865
                 /\ html_log_calls' =
                      add_html_log_entry(html_log_calls, path, "ERROR", "IOError")
                 /\ UNCHANGED << disk, changed_files_count >>
            ELSE /\ disk' = [disk EXCEPT ![path] = written.file]
                 /\ html_log_calls' =
                      add_html_log_entry(html_log_calls, path, status, desc)
                 /\ changed_files_count' = changed_files_count + 1
  /\ UNCHANGED << args, run_attributes, final_file_list, started, cur_draft,
                  cur_update_status, prompts, llm_ok, resolver_vars,
                  loader_vars, call_vars >>

\* lines 656-681 and 774-868: entity resolution for DocBook, the dry-run
\* report or the write-back, and lines 954-955 of main
Finish ==
  /\ pc = "finish"
  /\ pc' = "loop"
  /\ LET file == disk[path]
         desc == IF file.kind = "xml"
                 THEN resolve_entities_in_string(cur_desc, BRANDS)
                 ELSE cur_desc
         written == IF file.kind = "xml" THEN WriteMeta(file, desc)
                    ELSE LET wb == WriteBack(file.text, desc)
                         IN  [file   |-> [file EXCEPT
                                            !.text = JoinLines(wb.lines) \o "\n"],
                              status |-> wb.status]
         status == IF cur_update_status # "None" THEN cur_update_status
                   ELSE written.status
     IN  /\ cur_desc' = desc
         /\ steps' = steps
              \o (IF file.kind = "xml" THEN << "resolve_entities_in_string" >>
                  ELSE << >>)
              \o (IF args.dry_run THEN << "dry_run_log" >>
                  ELSE IF written.status = "WARNING" THEN << >>
                  ELSE << "write_text" >>)
         /\ IF args.dry_run
            THEN /\ html_log_calls' =
                      add_html_log_entry(html_log_calls, path, "DRY_RUN", desc)
                 /\ UNCHANGED << disk, changed_files_count >>
            ELSE IF written.status = "WARNING"
            THEN /\ html_log_calls' =
                      add_html_log_entry(html_log_calls, path, "WARNING",
                        "No <info> block found and could not create one.")
                 /\ UNCHANGED << disk, changed_files_count >>
            ELSE IF ~file.writable
            THEN \* IOError of write_text, caught at lines 679 and 865
                 /\ html_log_calls' =
                      add_html_log_entry(html_log_calls, path, "ERROR", "IOError")
                 /\ UNCHANGED << disk, changed_files_count >>
            ELSE /\ disk' = [disk EXCEPT ![path] = written.file]
                 /\ html_log_calls' =
                      add_html_log_entry(html_log_calls, path, status, desc)
                 /\ changed_files_count' = changed_files_count + 1
  /\ UNCHANGED << args, run_attributes, final_file_list, started, cur_draft,
                  cur_update_status, prompts, llm_ok, resolver_vars,
                  loader_vars, call_vars >>

\* lines 957-959: the loop is over
EndRun ==
  /\ pc = "loop"
  /\ started = Cardinality(final_file_list)
  /\ pc' = "finished"
  /\ changed_files_count' =
       IF args.dry_run /\ html_log_entries # << >>
       THEN Cardinality({n \in 1 .. Len(html_log_entries) :
                           html_log_entries[n].status = "DRY_RUN"})
       ELSE changed_files_count
  /\ UNCHANGED << args, run_attributes, disk, final_file_list, started,
                  cur_draft, cur_desc, cur_update_status, html_log_calls,
                  prompts, llm_ok, steps, resolver_vars, loader_vars,
                  call_vars >>

\* a run of main over the files of file_sets
InitRun(file_sets) ==
  /\ args \in [force_overwrite : BOOLEAN, dry_run : BOOLEAN, html_log : BOOLEAN]
  /\ run_attributes \in RunAttributes
  /\ disk = InitialFiles
  /\ final_file_list \in file_sets
  /\ pc = "loop" /\ started = 0 /\ cur_draft = "" /\ cur_desc = ""
  /\ cur_update_status = "None" /\ changed_files_count = 0
  /\ html_log_calls = << >> /\ prompts = << >> /\ llm_ok = TRUE
  /\ steps = << >>
  /\ ResolverIdle /\ LoaderIdle /\ CallIdle

\* runs over one file, with every reply of the language model
Init == InitRun({ {Paths[n]} : n \in 1 .. Len(Paths) })

Next ==
  \/ StartFile
  \/ \E o \in Outcomes, g \in GrammarOutcomes : Generate(o, g)
  \/ Finish
  \/ EndRun

Spec == Init /\ [][Next]_vars

\* runs over up to MaxFiles files
MaxFiles == 2

BatchPaths ==
  { "docs/leap/install.adoc", "docs/misc/gone.adoc", "docs/misc/legacy.adoc",
    "docs/misc/locked.adoc", "docs/sles/broken.xml", "docs/sles/ha.xml",
    "docs/sles/latin.xml" }

InitBatch == InitRun({S \in SUBSET BatchPaths : Cardinality(S) <= MaxFiles})

NextBatch ==
  \/ StartFile
  \/ \E o \in BatchOutcomes : Generate(o, [ok |-> TRUE, response |-> ""])
  \/ Finish
  \/ EndRun

SpecBatch == InitBatch /\ [][NextBatch]_vars

(***************************************************************************)
(* Calls of one function on its own: sanitize_and_finalize on a draft and  *)
(* again on its own result.                                                *)
(***************************************************************************)
LeadIns ==
  {"", "This guide describes ", "In this section ", "by ", "Note: ",
   "The page covers in this guide "}

DraftBodies ==
  {"how to configure the Foo network stack for your infrastructure",
   "using tools", "a &amp;gt; b", "deploy Kubernetes apps > here",
   "YaST's modules"}

DraftEnds == {"", " and for", ".", " of-"}

Drafts ==
  {lead \o body \o end :
     lead \in LeadIns, body \in DraftBodies, end \in DraftEnds}

SanitizeCalls ==
  {<< "sanitize_and_finalize", << draft, banned >> >> :
     draft \in Drafts, banned \in {<< >>, BANNED_LITERALS}}

\* brand tables: none, the brands of the run, brands of one family, brands
\* whose keys are part of one another
BrandSets ==
  { << >>, BRANDS, SelectSeq(BRANDS, LAMBDA b : b.family = "suse"),
    load_brand_config_from_entities(
      << << "sle", "SLE Base" >>, << "sle-ha", "openSUSE HA" >>,
         << "leap", "Leap" >>, << "docs", "Docs" >> >>) }

CallPaths ==
  { "docs/sles/ha.xml", "docs/leap/install.adoc", "docs/misc/notes.adoc",
    "books/SLE-HA/sle/a.xml", "books/sleha_leap/a.adoc",
    "books/rmt.leap/b.adoc" }

Descriptions ==
  { "Migrate workloads from openSUSE Leap to SUSE Linux Enterprise , and more",
    "Use Leapfrog tools ,  with openSUSEway care of",
    "Deploy SLE Linux HA clusters , , on and",
    "Plain text" }

ClassifyCalls ==
  {<< "file_context", << file_path, brands >> >> :
     file_path \in CallPaths, brands \in BrandSets}

BrandCalls ==
  {<< "post_process_description", << description, file_path, brands >> >> :
     description \in Descriptions, file_path \in CallPaths,
     brands \in BrandSets}

Calls == SanitizeCalls \cup ClassifyCalls \cup BrandCalls

InitCall ==
  /\ \E call \in Calls : call_fn = call[1] /\ call_args = call[2]
  /\ call_results = << >>
  /\ ResolverIdle
  /\ LoaderIdle
  /\ RunIdle

\* the function returns
Return(value) ==
  /\ call_results' = Append(call_results, value)
  /\ UNCHANGED << call_fn, call_args, resolver_vars, loader_vars, run_vars >>

\* lines 396-446, on the draft and then on the description it returned
Finalize ==
  /\ call_fn = "sanitize_and_finalize"
  /\ Len(call_results) < 2
  /\ Return(sanitize_and_finalize(
              IF call_results = << >> THEN call_args[1] ELSE call_results[1],
              call_args[2]))

\* lines 313-321: the classification of the file path
Classify ==
  /\ call_fn = "file_context"
  /\ call_results = << >>
  /\ Return(FileContext(call_args[1], call_args[2]))

\* lines 308-355
CorrectBranding ==
  /\ call_fn = "post_process_description"
  /\ call_results = << >>
  /\ Return(post_process_description(call_args[1], call_args[2], call_args[3]))

NextCall == Finalize \/ Classify \/ CorrectBranding

SpecCall == InitCall /\ [][NextCall]_vars

(***************************************************************************)
(* Properties of the description pipeline.                                 *)
(***************************************************************************)
\* the statuses under which a description is accepted: written to the file
\* or reported by a dry run
AcceptedStatuses == {"ADDED", "REPLACED", "UPDATED", "DRY_RUN"}

\* the log calls that report an accepted description
Accepted ==
  {n \in 1 .. Len(html_log_calls) :
     html_log_calls[n].status \in AcceptedStatuses}

Short(d) == d = "" \/ Len(d) < 100

LastCall == html_log_calls[Len(html_log_calls)]

RetryError ==
  /\ html_log_calls # << >>
  /\ LastCall.filepath = path
  /\ LastCall.status = "ERROR"
  /\ LastCall.details = "Generated description still too short after retry."

\* at most two description requests per file, the first with PROMPT_TMPL and
\* the second with PROMPT_TMPL_RETRY; a description goes on to be accepted
\* only with a sanitized length of at least 100; the file of a run whose
\* retry failed is as it was
GateState ==
  /\ prompts \in { << >>, << "PROMPT_TMPL" >>,
                   << "PROMPT_TMPL", "PROMPT_TMPL_RETRY" >> }
  /\ pc = "finish" => ~Short(cur_desc)
  /\ pc = "retry" => Short(cur_desc) /\ prompts = << "PROMPT_TMPL" >>
  /\ (pc = "loop" /\ started > 0 /\ RetryError) =>
       /\ Len(prompts) = 2 /\ Short(cur_desc)
       /\ disk[path] = InitialFiles[path]

\* a short first result leads to the retry and nothing else; a short retry
\* result leads to the ERROR entry and nothing else; a file is written and
\* an accepted description logged only for a description that passed the
\* gate
GateStep ==
  /\ (pc = "first_pass" /\ Short(cur_desc')) =>
       /\ pc' = "retry"
       /\ UNCHANGED << disk, html_log_calls, changed_files_count >>
  /\ (pc = "first_pass" /\ ~Short(cur_desc')) => pc' = "finish"
  /\ pc = "retry" =>
       /\ prompts' = << "PROMPT_TMPL", "PROMPT_TMPL_RETRY" >>
       /\ IF Short(cur_desc')
          THEN /\ pc' = "loop" /\ RetryError'
               /\ Len(html_log_calls') = Len(html_log_calls) + 1
               /\ UNCHANGED << disk, changed_files_count >>
          ELSE pc' = "finish" /\ UNCHANGED << disk, html_log_calls >>
  /\ (disk' # disk \/ Accepted' # Accepted) =>
       pc = "finish" /\ ~Short(cur_desc)

\* C1: a description is accepted only if its sanitized length is at least
\* 100; a first result that is empty or shorter leads to exactly one retry
\* with the retry prompt, never to a third request, and a retry result that
\* is empty or shorter leaves the file unwritten and logged as ERROR
C1_RetryGate == []GateState /\ [][GateStep]_vars

\* the retry of a file failed too
C1_Witness == pc = "loop" /\ started > 0 /\ RetryError /\ Len(prompts) = 2

\* C2: every accepted description has between 100 and 160 characters
C2_LengthInvariant ==
  \A n \in Accepted :
     /\ Len(html_log_calls[n].details) >= 100
     /\ Len(html_log_calls[n].details) <= 160

\* some line of the text is a :description: line
HasDescriptionLine(text) ==
  \E n \in 1 .. Len(SplitLines(text)) : DESC_RE_match(SplitLines(text)[n])

\* the AsciiDoc files of the run that had a :description: line before it
Described ==
  {f \in final_file_list :
     /\ InitialFiles[f].kind = "adoc"
     /\ InitialFiles[f].readable /\ InitialFiles[f].utf8
     /\ HasDescriptionLine(InitialFiles[f].text)}

\* C3: without force-overwrite an AsciiDoc file with a :description: line on
\* any of its lines is logged as SKIPPED and keeps its content
C3_ExistingDescriptionKept ==
  ~args.force_overwrite =>
    /\ \A f \in Described : disk[f] = InitialFiles[f]
    /\ \A n \in 1 .. Len(html_log_calls) :
         html_log_calls[n].filepath \in Described
           => html_log_calls[n].status = "SKIPPED"

\* the brands of the other family than that of the file's brand
OtherFamily(file_path) ==
  LET file_context == FileContext(file_path, BRANDS)
  IN  IF file_context = << >> THEN {}
      ELSE {n \in 1 .. Len(BRANDS) :
              BRANDS[n].family # file_context[1].family}

\* C4: an accepted description of a file classified into one brand family
\* contains neither the display name of a brand of the other family nor a
\* word of such a name that is longer than 3 characters, as whole words and
\* whatever the case
C4_BrandIsolation ==
  \A n \in Accepted :
     \A m \in OtherFamily(html_log_calls[n].filepath) :
        /\ ~SearchWordCI(html_log_calls[n].details, BRANDS[m].name)
        /\ \A w \in 1 .. Len(Split(BRANDS[m].name)) :
              Len(Split(BRANDS[m].name)[w]) > 3 =>
                ~SearchWordCI(html_log_calls[n].details, Split(BRANDS[m].name)[w])

\* C5: no accepted description contains a forbidden character
C5_NoForbiddenCharacter ==
  \A n \in Accepted :
     \A c \in {">", ":", "|", "\"", LDQUO, RDQUO, LSQUO, RSQUO} :
        ~Contains(html_log_calls[n].details, c)

LastWord(text) == Split(text)[Len(Split(text))]

\* C6: no accepted description ends with a period or with a trailing
\* stopword
C6_CleanEnding ==
  \A n \in Accepted :
     /\ ~EndsWith(html_log_calls[n].details, ".")
     /\ Lower(LastWord(html_log_calls[n].details)) \notin TRAILING_STOPWORDS

\* C7: no failure on one file keeps main from processing the files after
\* it, and a request to the language model that fails gives an empty draft
\* that is followed by the retry or by the ERROR entry
C7_FailureIsolation ==
  /\ pc = "crashed" => started = Cardinality(final_file_list)
  /\ (~llm_ok /\ prompts # << >>) =>
       /\ cur_draft = ""
       /\ pc = "retry" \/ (pc \in {"loop", "finished"} /\ RetryError)

(***************************************************************************)
(* Properties of the conditional attribute loader.                         *)
(***************************************************************************)
\* every conditional block that is open holds
AllActive == \A n \in 1 .. Len(conds) : conds[n]

\* the nesting depth after the first n lines of read: an ifndef or ifeval
\* opens a level, an endif closes one if one is open
RECURSIVE OpenDepth(_, _)
OpenDepth(read, n) ==
  IF n = 0 THEN 0
  ELSE LET d == OpenDepth(read, n - 1)
       IN  IF IsEndif(read[n]) THEN (IF d > 0 THEN d - 1 ELSE 0)
           ELSE IF IfndefKey(read[n]) # "" \/ IfevalParts(read[n]) # << >>
                THEN d + 1
                ELSE d

GatingState ==
  /\ in_active_block = AllActive
  /\ Len(conds) = Len(active_block_stack)
  /\ ( /\ "x" \in Keys(initial_context)
       /\ la_read = << "ifndef::x[]", ":y: 1", "endif::[]" >> )
     => "y" \notin Keys(la_attributes)

GatingStep ==
  (la_pc = "first_pass" /\ la_attributes' # la_attributes) => AllActive

\* C8: the active flag is the conjunction of the conditions of all open
\* blocks, with one stack level per open block, so a directive read inside an
\* inactive block opens and closes only its own level; the table changes
\* while the file is read only if every open block holds; with x predefined
\* the lines ifndef::x[] / :y: 1 / endif::[] do not add y
C8_ConditionalGating == []GatingState /\ [][GatingStep]_vars

\* C8 witness: with x predefined, a definition of y read after an inner block
\* of an inactive ifndef::x[] block was closed is not in the table
C8_Witness ==
  /\ "x" \in Keys(initial_context)
  /\ la_read = << "ifndef::x[]", "ifeval::[\"{x}\" == \"1\"]", "endif::[]", ":y: 1" >>
  /\ conds = << FALSE >>
  /\ ~in_active_block
  /\ "y" \notin Keys(la_attributes)

StackDepthState ==
  Len(active_block_stack) = OpenDepth(la_read, Len(la_read))

EndifOnEmptyStack ==
  ( /\ la_read' # la_read
    /\ IsEndif(la_read'[Len(la_read')])
    /\ active_block_stack = << >> )
  => UNCHANGED << active_block_stack, in_active_block, la_attributes >>

\* C9: after every line the stack depth is the number of ifndef/ifeval
\* directives read and not yet closed by an endif, and an endif read while
\* the stack is empty changes neither the stack, the active flag nor the table
C9_StackDepth == []StackDepthState /\ [][EndifOnEmptyStack]_vars

\* C9 witness: an endif was read on an empty stack and two blocks are open
C9_Witness ==
  /\ Len(active_block_stack) = 2
  /\ \E n \in 1 .. Len(la_read) :
       IsEndif(la_read[n]) /\ OpenDepth(la_read, n - 1) = 0

(***************************************************************************)
(* Properties of resolve_attributes.                                       *)
(***************************************************************************)
\* text with every placeholder that names a key replaced by the key's value,
\* itself so replaced, to the given depth
RECURSIVE FullFrom(_, _, _, _)
FullFrom(text, p, attributes, depth) ==
  IF text = "" THEN "" ELSE
  LET starts == {q \in p .. Len(text) :
                   /\ PlaceholderEnd(text, q) > 0
                   /\ SubSeq(text, q + 1, PlaceholderEnd(text, q) - 1)
                        \in Keys(attributes)}
  IN  IF starts = {} THEN SubSeq(text, p, Len(text))
      ELSE LET q == Min(starts)
               e == PlaceholderEnd(text, q)
               value == Lookup(attributes, SubSeq(text, q + 1, e - 1))
           IN  SubSeq(text, p, q - 1)
                 \o (IF depth = 0 THEN "{}" ELSE FullFrom(value, 1, attributes, depth - 1))
                 \o FullFrom(text, e + 1, attributes, depth)

\* the length of the longest chain of references that starts in text
RECURSIVE RefDepth(_, _, _)
RefDepth(text, attributes, fuel) ==
  LET names == {SubSeq(text, q + 1, PlaceholderEnd(text, q) - 1) :
                  q \in {r \in 1 .. Len(text) : PlaceholderEnd(text, r) > 0}}
      known == names \cap Keys(attributes)
  IN  IF known = {} \/ fuel = 0 THEN 0
      ELSE 1 + Max({RefDepth(Lookup(attributes, key), attributes, fuel - 1) :
                      key \in known})

\* C10: with the table a -> {b}, b -> X (in either key order) "{a}" resolves
\* to "X"; for an acyclic table whose longest reference chain from the text
\* is at most 10, the result is the fully substituted text in every key order
C10_FixedPoint ==
  ra_pc = "done" =>
    /\ ( /\ ra_input = "{a}"
         /\ Keys(ra_attributes) = {"a", "b"}
         /\ Lookup(ra_attributes, "a") = "{b}"
         /\ Lookup(ra_attributes, "b") = "X" )
       => ra_text = "X"
    /\ RefDepth(ra_input, ra_attributes, Len(ra_attributes) + 1) <= 10
       => ra_text = FullFrom(ra_input, 1, ra_attributes, Len(ra_attributes) + 1)

\* C10 witness: a chain of 10 references was resolved in 10 passes, the keys
\* being visited last to first
C10_Witness ==
  /\ ra_pc = "done"
  /\ ra_iter = ITER_CAP
  /\ RefDepth(ra_input, ra_attributes, Len(ra_attributes) + 1) = 10
  /\ ra_attributes[1][1] = "j"
  /\ ~Contains(ra_text, "{")
  /\ Contains(ra_text, "X")

(***************************************************************************)
(* Properties of resolve_attributes on circular tables and nested braces.  *)
(***************************************************************************)
\* the table {a: "{b}", b: "{a}"} in either dict order, resolving "{a}"
CircularPair ==
  /\ ra_input = "{a}"
  /\ Keys(ra_attributes) = {"a", "b"}
  /\ Len(ra_attributes) = 2
  /\ Lookup(ra_attributes, "a") = "{b}"
  /\ Lookup(ra_attributes, "b") = "{a}"

HasPlaceholder(text) ==
  \E q \in 1 .. Len(text) : PlaceholderEnd(text, q) > 0

\* C11 as stated: resolving "{a}" against the circular pair ends with a
\* residual placeholder in the returned text.
C11_ResidualPlaceholder ==
  (CircularPair /\ ra_pc = "done") => HasPlaceholder(ra_text)

\* C11: resolving "{a}" against the circular pair {a: "{b}", b: "{a}"}
\* terminates: the loop never runs more than 10 passes (for any table), the
\* function returns, and the returned text is empty, the residue of the
\* cycle having been deleted by the final substitution.
C11_CircularTerminates ==
  /\ [](ra_iter <= 10)
  /\ []((CircularPair /\ ra_pc = "done") => ra_text = "")
  /\ (CircularPair ~> ra_pc = "done")

C11_Witness ==
  /\ CircularPair
  /\ ra_pc = "done"
  /\ ra_iter = 1
  /\ ra_attributes[1][1] = "b"

\* C12: for every text and every table the text returned by
\* resolve_attributes contains no {name} placeholder token, nested braces
\* included.
C12_NoPlaceholderLeft ==
  ra_pc = "done" => ~HasPlaceholder(ra_text)

(***************************************************************************)
(* Properties of the value expansion of the loader.                        *)
(***************************************************************************)
\* the table as the first pass left it
Unexpanded == FirstPass(<< >>, la_read, 1)

\* the names in a value that are not keys of the table
Undefined(value, attributes) ==
  {Placeholders(value)[m] : m \in 1 .. Len(Placeholders(value))}
    \ Keys(attributes)

CircularDefinition ==
  /\ {"a", "b"} \subseteq Keys(Unexpanded)
  /\ Lookup(Unexpanded, "a") = "{b}"
  /\ Lookup(Unexpanded, "b") = "{a}"

\* C13: the value expansion of the loader never deletes a placeholder: in
\* every value, a placeholder whose name is not a key of the table is still
\* there, as often as before, during and after expansion, and the values of
\* a circular pair still hold a placeholder when expansion has finished.
C13_PlaceholdersKept ==
  /\ \A n \in 1 .. Len(la_attributes) :
       \A p \in Undefined(Unexpanded[n][2], Unexpanded) :
          Cardinality(Occurrences(la_attributes[n][2], "{" \o p \o "}", FALSE, FALSE))
            >= Cardinality(Occurrences(Unexpanded[n][2], "{" \o p \o "}", FALSE, FALSE))
  /\ (la_pc = "done" /\ CircularDefinition) =>
       /\ HasPlaceholder(Lookup(la_attributes, "a"))
       /\ HasPlaceholder(Lookup(la_attributes, "b"))

C13_Witness ==
  /\ la_pc = "done"
  /\ la_iter = ITER_CAP
  /\ CircularDefinition
  /\ "c" \in Keys(Unexpanded)
  /\ Lookup(Unexpanded, "c") = "{a}-{u}"
  /\ Lookup(la_attributes, "c") = "{a}-{u}"
  /\ Lookup(la_attributes, "a") = "{a}"

\* the passes that change a value, counted from the given table
RECURSIVE ChangingPasses(_, _)
ChangingPasses(attributes, left) ==
  IF left = 0 \/ ExpandItems(attributes, 1) = attributes THEN 0
  ELSE 1 + ChangingPasses(ExpandItems(attributes, 1), left - 1)

\* C20: the value expansion of the loader makes at most 10 passes and stops
\* after the first pass that changes no value: it never makes more than one
\* pass beyond those that change a value.
C20_StopsEarly ==
  la_pc = "done" =>
    /\ la_iter <= 10
    /\ la_iter <= ChangingPasses(Unexpanded, ITER_CAP) + 1

\* the same table with its items in another order
Reordered(attributes, ord) ==
  [m \in 1 .. Len(attributes) |-> attributes[ord[m]]]

\* a table as the mapping of its keys to their values
AsMapping(attributes) ==
  {<< attributes[m][1], attributes[m][2] >> : m \in 1 .. Len(attributes)}

\* the tables the value expansion ends with, one for each visiting order
FinalTables ==
  {AsMapping(SecondPass(Reordered(Unexpanded, ord), TRUE, ITER_CAP)) :
     ord \in Perms(Len(Unexpanded))}

\* C21: the table the value expansion of the loader returns does not depend
\* on the order in which the attributes are visited within a pass: every
\* visiting order of the parsed table ends with the mapping that is returned.
C21_OrderIndependent ==
  la_pc = "done" => FinalTables = {AsMapping(la_attributes)}

\* the returned table is the one the passes end with in the order of the file
ReturnedTable ==
  la_pc = "done" => la_attributes = SecondPass(Unexpanded, TRUE, ITER_CAP)

(***************************************************************************)
(* Properties of sanitize_and_finalize.                                    *)
(***************************************************************************)
RoundTripDraft ==
  "This guide describes how to configure the Foo network stack for your infrastructure and for"

RoundTripCall ==
  /\ call_fn = "sanitize_and_finalize"
  /\ call_args = << RoundTripDraft, << >> >>
  /\ call_results # << >>

\* C14 as stated: the description made from the round trip draft starts with
\* "Configure the Foo network stack for your infrastructure".
C14_StartsWithConfigure ==
  RoundTripCall =>
    StartsWith(call_results[1],
               "Configure the Foo network stack for your infrastructure")

\* C14: sanitize_and_finalize on the round trip draft, with no banned
\* literals, removes the lead-in "This guide describes " and the trailing
\* "and for" and capitalizes what is left: the description is
\* "How to configure the Foo network stack for your infrastructure".
C14_RoundTrip ==
  RoundTripCall =>
    call_results[1] = "How to configure the Foo network stack for your infrastructure"

C14_Witness ==
  /\ RoundTripCall
  /\ ~Contains(call_results[1], "This guide")
  /\ ~Contains(call_results[1], "and for")
  /\ StartsWith(call_results[1], "How to configure")

\* a draft with no banned literal, no forbidden character, at most 160
\* characters, not ending in a stopword or a period
Compliant(draft, banned) ==
  /\ \A n \in 1 .. Len(banned) : ~SearchWordCI(draft, banned[n])
  /\ \A c \in FORBIDDEN_CHARS_RE : ~Contains(draft, c)
  /\ Len(draft) <= MAX_DESC_LEN
  /\ Split(draft) # << >>
  /\ Lower(LastWord(draft)) \notin TRAILING_STOPWORDS
  /\ ~EndsWith(draft, ".")

\* C15: for every compliant draft, sanitize_and_finalize applied to its own
\* result returns that result unchanged.
C15_Idempotent ==
  ( /\ call_fn = "sanitize_and_finalize"
    /\ Len(call_results) = 2
    /\ Compliant(call_args[1], call_args[2]) )
  => call_results[2] = call_results[1]

(***************************************************************************)
(* Properties of the write-back of process_adoc_file.                      *)
(***************************************************************************)
\* the log calls that report a description written to the AsciiDoc file f
\* that had no :description: line before the run
Inserted(f) ==
  {n \in 1 .. Len(html_log_calls) :
     /\ html_log_calls[n].filepath = f
     /\ html_log_calls[n].status \in {"ADDED", "UPDATED"}
     /\ InitialFiles[f].kind = "adoc"
     /\ ~HasDescriptionLine(InitialFiles[f].text)}

\* the lines `after` are the lines `before` with `line` put in after the
\* first t of them
InsertedAfter(before, after, t, line) ==
  /\ Len(after) = Len(before) + 1
  /\ after[t + 1] = line
  /\ \A m \in 1 .. t : after[m] = before[m]
  /\ \A m \in t + 1 .. Len(before) : after[m + 1] = before[m]

\* t is the position of the first title line, 0 when there is none
FirstTitle(lines, t) ==
  /\ t \in 0 .. Len(lines)
  /\ \A m \in 1 .. Len(lines) : m < t => ~TITLE_RE_match(lines[m])
  /\ IF t = 0 THEN \A m \in 1 .. Len(lines) : ~TITLE_RE_match(lines[m])
     ELSE TITLE_RE_match(lines[t])

\* C16: when a run that is not a dry run has written a description to an
\* AsciiDoc file that had no :description: line, the file is its old lines
\* with the line ":description: <text>" put in right after the first title
\* line, or as the first line when there is no title line.
C16_InsertedAfterTitle ==
  \A f \in final_file_list : \A n \in Inserted(f) :
     \E t \in 0 .. Len(SplitLines(InitialFiles[f].text)) :
        /\ FirstTitle(SplitLines(InitialFiles[f].text), t)
        /\ InsertedAfter(SplitLines(InitialFiles[f].text),
                         SplitLines(disk[f].text), t,
                         ":description: " \o html_log_calls[n].details)

C16_Witness ==
  /\ Inserted("docs/misc/titles.adoc") # {}
  /\ ~args.dry_run
  /\ SplitLines(InitialFiles["docs/misc/titles.adoc"].text)[3] = "= Titles"
  /\ StartsWith(SplitLines(disk["docs/misc/titles.adoc"].text)[4],
                ":description: Learn how to")

(***************************************************************************)
(* Properties of the order of the steps of the file processors.            *)
(***************************************************************************)
Positions(name) == {n \in 1 .. Len(steps) : steps[n] = name}

Reported == Positions("write_text") \cup Positions("dry_run_log")

\* on a DocBook file the references are resolved at most once, right after
\* the length gate, after every request and every sanitization and before
\* the write or the dry-run report, neither of which happens without it
EntitiesLast ==
  /\ Cardinality(Positions("resolve_entities_in_string")) <= 1
  /\ \A r \in Positions("resolve_entities_in_string") :
       /\ r > 1 /\ steps[r - 1] = "length_gate"
       /\ \A n \in Positions("call_ollama")
                    \cup Positions("sanitize_and_finalize") : n < r
       /\ \A w \in Reported : r < w
  /\ Reported # {} => Positions("resolve_entities_in_string") # {}

\* on an AsciiDoc file the attributes are resolved right after the file is
\* read, then the payload is extracted, then come the requests; entity
\* references are never resolved
AttributesFirst ==
  /\ Positions("resolve_entities_in_string") = {}
  /\ Positions("resolve_attributes") \subseteq {2}
  /\ Positions("extract_adoc_payload") \subseteq {3}
  /\ Positions("call_ollama") # {} =>
       /\ Positions("resolve_attributes") = {2}
       /\ Positions("extract_adoc_payload") = {3}
       /\ \A n \in Positions("call_ollama") : n > 3

\* what the last step of a processor does to the description that passed
\* the gate: on a DocBook file no reference to a brand is left and a
\* reference to sles has become the name of the brand, on an AsciiDoc file
\* the description is left as it is
LastStep ==
  pc = "finish" =>
    IF disk[path].kind = "xml"
    THEN /\ \A n \in 1 .. Len(BRANDS) :
              ~Contains(cur_desc', "&" \o BRANDS[n].key \o ";")
         /\ Contains(cur_desc, "&sles;") =>
              Contains(cur_desc', "SUSE Linux Enterprise")
    ELSE cur_desc' = cur_desc

\* C17: on the DocBook path entity references are resolved exactly once,
\* after sanitization and the length gate and before the write or the
\* dry-run report, never before the draft of the language model; on the
\* AsciiDoc path attributes are resolved first, before the payload is
\* extracted and before any request, and entity references are never
\* resolved.
C17_OrderingAsymmetry ==
  /\ [](started >= 1 =>
          IF disk[path].kind = "xml" THEN EntitiesLast ELSE AttributesFirst)
  /\ [][LastStep]_vars

C17_Witness ==
  /\ started >= 1
  /\ disk[path].kind = "xml"
  /\ Positions("write_text") # {}
  /\ Cardinality(Positions("call_ollama")) = 2
  /\ Contains(cur_desc, "RMT: Mirror")
  /\ Contains(cur_draft, "&rmt;")

(***************************************************************************)
(* Properties of post_process_description.                                 *)
(***************************************************************************)
\* the brands whose key is a whole word of the path, whatever the case
Matching(file_path, brands) ==
  {n \in 1 .. Len(brands) : SearchWordCI(file_path, brands[n].key)}

\* the first in load order of the matching brands with the longest key
Longest(file_path, brands) ==
  CHOOSE n \in Matching(file_path, brands) :
    \A m \in Matching(file_path, brands) :
       \/ Len(brands[m].key) < Len(brands[n].key)
       \/ Len(brands[m].key) = Len(brands[n].key) /\ n <= m

\* the names of the brands of another family than the one of the path, and
\* the words of more than three characters of these names
Banned(file_path, brands) ==
  LET others == {n \in 1 .. Len(brands) :
                   brands[n].family
                     # brands[Longest(file_path, brands)].family}
  IN  {brands[n].name : n \in others}
        \cup {w \in UNION {{Split(brands[n].name)[m] :
                                m \in 1 .. Len(Split(brands[n].name))} :
                             n \in others} : Len(w) > 3}

NothingToCorrect(description, file_path, brands) ==
  \/ brands = << >>
  \/ Matching(file_path, brands) = {}
  \/ Banned(file_path, brands) = {}
  \/ \A w \in Banned(file_path, brands) : ~SearchWordCI(description, w)

\* C18: post_process_description returns the description unchanged and no
\* update status when the brand table is empty, no key is a whole word of
\* the path, no keyword is banned or no banned keyword is a whole word of
\* the description; it reports UPDATED only with a description that
\* differs from its argument.
C18_NoOp ==
  (call_fn = "post_process_description" /\ call_results # << >>) =>
    /\ NothingToCorrect(call_args[1], call_args[2], call_args[3]) =>
         call_results[1] =
           [description |-> call_args[1], update_status |-> "None"]
    /\ call_results[1].update_status = "UPDATED" =>
         call_results[1].description # call_args[1]

C18_Witness ==
  /\ call_fn = "post_process_description"
  /\ call_results # << >>
  /\ call_args[3] = BRANDS
  /\ Matching(call_args[2], call_args[3]) # {}
  /\ Banned(call_args[2], call_args[3]) # {}
  /\ NothingToCorrect(call_args[1], call_args[2], call_args[3])
  /\ Contains(call_args[1], "Leapfrog tools ,  with")
  /\ call_results[1].description = call_args[1]

\* C19: the classification of a path is none when no key is a whole word
\* of the path, whatever the case, and otherwise the brand with the longest
\* of the keys that are, the first in load order of those with such a key.
C19_LongestKey ==
  (call_fn = "file_context" /\ call_results # << >>) =>
    call_results[1] =
      IF Matching(call_args[1], call_args[2]) = {} THEN << >>
      ELSE << call_args[2][Longest(call_args[1], call_args[2])] >>

C19_Witness ==
  /\ call_fn = "file_context"
  /\ call_results # << >>
  /\ Cardinality(Matching(call_args[1], call_args[2])) = 2
  /\ call_results[1][1].key = "sle-ha"
  /\ call_args[2][1].key = "sle"

(***************************************************************************)
(* Properties of the report log and of the count of changed files.         *)
(***************************************************************************)
LogStatuses ==
  {"ADDED", "REPLACED", "UPDATED", "DRY_RUN", "SKIPPED", "WARNING", "ERROR"}

\* the files of the list whose processing has returned
Returned ==
  IF pc \in {"loop", "finished"} THEN started
  ELSE IF started = 0 THEN 0
  ELSE started - 1

\* one entry for each returned file, in the order of processing
OneEntryEach ==
  args.html_log =>
    /\ Len(html_log_entries) = Returned
    /\ \A n \in 1 .. Len(html_log_entries) :
         /\ html_log_entries[n].filepath = sorted(final_file_list)[n]
         /\ html_log_entries[n].status \in LogStatuses

\* a step leaves the entries of the log as they are and adds at most one
AppendOnly ==
  /\ Len(html_log_calls') \in {Len(html_log_calls), Len(html_log_calls) + 1}
  /\ SubSeq(html_log_calls', 1, Len(html_log_calls)) = html_log_calls

\* C22: with report logging enabled the log is append-only, and every file
\* of the processing list whose processing has returned has exactly one
\* entry, in processing order, with one of the seven statuses: no path
\* through the processing of a file appends no entry or two, and no entry is
\* ever changed or removed.
C22_OneEntryPerFile == []OneEntryEach /\ [][AppendOnly]_vars

C22_Witness ==
  /\ pc = "finished"
  /\ args.html_log
  /\ started = 2
  /\ Len(html_log_entries) = 2
  /\ html_log_entries[1].status = "ERROR"
  /\ html_log_entries[2].status \in {"ADDED", "UPDATED"}

\* the files of the run whose content on disk is no longer the initial one
WrittenFiles == {f \in final_file_list : disk[f] # InitialFiles[f]}

\* the files whose accepted description a dry run reported
DryRunFiles ==
  {n \in 1 .. Len(html_log_calls) : html_log_calls[n].status = "DRY_RUN"}

\* C23: the count of changed files reported at the end of a run is the
\* number of files written in a normal run and, in a dry run, the number of
\* files that reached DRY_RUN, with or without an HTML report.
C23_ChangedCount ==
  pc = "finished" =>
    changed_files_count =
      IF args.dry_run THEN Cardinality(DryRunFiles)
      ELSE Cardinality(WrittenFiles)

\* the count is right in every run but a dry run without an HTML report
CountWithReport ==
  (pc = "finished" /\ (args.html_log \/ ~args.dry_run)) =>
    changed_files_count =
      IF args.dry_run THEN Cardinality(DryRunFiles)
      ELSE Cardinality(WrittenFiles)

(***************************************************************************)
(* Frame properties of the write-back and of the dry run.                  *)
(***************************************************************************)
\* the log calls that report a successful write-back to the AsciiDoc file f
WrittenBack(f) ==
  {n \in 1 .. Len(html_log_calls) :
     /\ html_log_calls[n].filepath = f
     /\ html_log_calls[n].status \in {"ADDED", "REPLACED", "UPDATED"}
     /\ InitialFiles[f].kind = "adoc"}

\* the lines `after` are the lines `before` with the :description: line at
\* position t replaced by `line`
ReplacedAt(before, after, t, line) ==
  /\ DESC_RE_match(before[t])
  /\ Len(after) = Len(before)
  /\ after[t] = line
  /\ \A m \in 1 .. Len(before) : m # t => after[m] = before[m]

\* C24: a successful write-back to an AsciiDoc file changes the description
\* line only: the lines written are the raw lines of the file with one
\* :description: line put in, or with one :description: line replaced, and
\* every other line as it was and where it was, its attribute placeholders
\* not resolved.
C24_OnlyDescriptionLine ==
  \A f \in final_file_list : \A n \in WrittenBack(f) :
     LET before == SplitLines(InitialFiles[f].text)
         after == SplitLines(disk[f].text)
         line == ":description: " \o html_log_calls[n].details
     IN  \/ \E t \in 0 .. Len(before) : InsertedAfter(before, after, t, line)
         \/ \E t \in 1 .. Len(before) : ReplacedAt(before, after, t, line)

C24_Witness ==
  /\ WrittenBack("docs/misc/product.adoc") # {}
  /\ run_attributes = << << "product", "Leap Micro" >> >>
  /\ SplitLines(InitialFiles["docs/misc/product.adoc"].text)[4] = "{product}"
  /\ SplitLines(disk["docs/misc/product.adoc"].text)[5] = "{product}"

\* a write-back that replaced a :description: line
SomeLineReplaced ==
  \E f \in final_file_list : \E n \in WrittenBack(f) :
     \E t \in 1 .. Len(SplitLines(InitialFiles[f].text)) :
        ReplacedAt(SplitLines(InitialFiles[f].text), SplitLines(disk[f].text),
                   t, ":description: " \o html_log_calls[n].details)

\* C25: in a dry run no file is ever written: whatever the files and the
\* replies of the language model, every file keeps the content it had
\* before the run, and a description that is accepted is logged with the
\* status DRY_RUN and with no other.
C25_DryRunWritesNothing ==
  args.dry_run =>
    /\ disk = InitialFiles
    /\ Positions("write_text") = {}
    /\ \A n \in Accepted : html_log_calls[n].status = "DRY_RUN"
    /\ Positions("dry_run_log") # {} =>
         /\ html_log_calls # << >>
         /\ html_log_calls[Len(html_log_calls)] =
              [filepath |-> path, status |-> "DRY_RUN", details |-> cur_desc]

C25_Witness ==
  /\ args.dry_run
  /\ args.force_overwrite
  /\ pc = "finished"
  /\ Positions("dry_run_log") # {}
  /\ disk[path].writable
  /\ DESC_RE_search(disk[path].text)
  /\ html_log_calls[1].status = "DRY_RUN"

====
